---- MODULE Spec2Model ----
(***************************************************************************)
(* EngineClient (packages/extension/src/engineClient.ts): the bridge       *)
(* between the extension host and the Python workflow engine.              *)
(*                                                                         *)
(* The client runs on the Node event loop.  A macrotask (a stdout data     *)
(* event, a process exit/error event, a timer) runs only when the          *)
(* microtask queue is empty; the continuation of every `await` and every   *)
(* promise reaction is a microtask, run in FIFO order.  Public methods     *)
(* are called by extension code, which runs in tasks and continuations of  *)
(* its own.  The model keeps the microtask queue explicitly (mq) so that   *)
(* only interleavings the event loop can produce are explored.             *)
(***************************************************************************)
EXTENDS Integers, Sequences, FiniteSets, TLC

\* Number of public calls (runWorkflow / ping / sendChatPrompt) explored.
MaxCalls == 2
\* The calls: MaxCalls of them in any mix, and one more for the scenario of
\* two runs and a probe (TrioSpec).
Calls == 1..(MaxCalls + 1)
\* Number of PROGRESS messages explored for one run.
MaxProgress == 3
\* Number of bytes one worker process writes to its stdout.
MaxStream == 4
\* Number of snapshots the workflow canvas publishes.
MaxSnapshots == 3
\* waitForSnapshotRefresh(store, previousSnapshotId, 800)
TimeoutMs == 800
\* await delay(60)
DelayMs == 60
\* Correlation tokens the engine may put on a message: 0 stands for an
\* absent token, c for the randomUUID() drawn by call c (whether or not the
\* call has drawn it yet: an id the client never issued is a foreign id).
Tokens == 0..MaxCalls

VARIABLES
  child,          \* this.child: 0 = undefined, 1 = the ChildProcess spawned last
  stdinWritable,  \* this.child.stdin.writable
  readyPromise,   \* this.readyPromise: 0 = undefined, 1 = the promise created last
  readyResolver,  \* this.readyResolver is set
  readyRejector,  \* this.readyRejector is set
  readyTimeout,   \* this.readyTimeout is set
  timerArmed,     \* the handshake setTimeout has neither fired nor been cleared
  activeRun,      \* this.activeRun: a PendingRun record, cid = 0 for undefined
  pendingPings,   \* this.pendingPings: sequence of PendingPing (by call)
  pendingChats,   \* this.pendingChats: set of correlation ids
  disposed,       \* this.disposed
  calls,          \* the public calls in flight: position and promises
  nCalls,         \* number of public calls made so far
  mq,             \* microtask queue: calls whose continuation is queued,
                  \* and 0 for a reaction of the extension to a settled call
  callerTurn,     \* extension code has run since the last engine event or timer
  inChunk,        \* processStdout is between two lines of one data event
  readyStatus,    \* state of the promise this.readyPromise refers to
  readyWaiters,   \* calls subscribed to the pending readyPromise, in order
  failed,         \* a process exit, process error or handshake timeout occurred
  alive,          \* number of spawned processes still running
  readyRecv,      \* a READY line of this.child has been handled
  writes,         \* history of child.stdin.write calls
  threw,          \* the last step left the stdout data handler by an exception
  stdoutBuffer,   \* this.stdoutBuffer: the characters not yet cut into lines
  fed,            \* the bytes the stdout data handler received from this.child
  cut,            \* the slices processStdout cut off the buffer, oldest first
  dispatched,     \* the lines handed to handleMessage, oldest first
  agent,          \* the chat request handler: its position and its locals
  snapshotId      \* store.getSnapshot()?.generatedAt, 0 for undefined

vars == <<child, stdinWritable, readyPromise, readyResolver, readyRejector,
          readyTimeout, timerArmed, activeRun, pendingPings, pendingChats,
          disposed, calls, nCalls, mq, callerTurn, inChunk, readyStatus,
          readyWaiters,
          failed, alive, readyRecv, writes, threw,
          stdoutBuffer, fed, cut, dispatched, agent, snapshotId>>

\* interface PendingRun; lastPct is <<>> while undefined, <<n>> for the
\* number n; progress holds what has been reported to the run's progress
\* sink, oldest first.
PendingRun(cid) ==
  [cid |-> cid, lastPct |-> <<>>, cancelledByUser |-> FALSE, progress |-> <<>>]

NoRun == PendingRun(0)

\* interface RunWorkflowResult, before any run has resolved
NoValue == [files |-> "", warnings |-> "", cancelled |-> FALSE]

\* A public call that has not been made yet.  late: the call was made after
\* dispose(); startBusy: it was made while a PendingRun was registered;
\* seq: the position of its PendingPing in the order of enqueueing.
NoCall ==
  [op |-> "none", pc |-> "idle", err |-> "", gen |-> 0,
   probe |-> "none", perr |-> "", pRes |-> 0, pRej |-> 0, timer |-> FALSE,
   opst |-> "none", operr |-> "", oRes |-> 0, oRej |-> 0,
   cancel |-> "none",
   result |-> "pending", late |-> FALSE, startBusy |-> FALSE, seq |-> 0,
   value |-> NoValue]

\* The chat request handler before the engine has answered the prompt.
\* previousId: previousSnapshotId; waited: Date.now() - start at the last
\* test of the loop in waitForSnapshotRefresh; posted: the commands were
\* posted to the canvas; runId: the generatedAt the store held when
\* workflowAgent.runWorkflow was executed.
NoRequest ==
  [pc |-> "idle", previousId |-> 0, waited |-> 0, posted |-> FALSE, runId |-> 0]

Init ==
  /\ child = 0
  /\ stdinWritable = FALSE
  /\ readyPromise = 0
  /\ readyResolver = FALSE
  /\ readyRejector = FALSE
  /\ readyTimeout = FALSE
  /\ timerArmed = FALSE
  /\ activeRun = NoRun
  /\ pendingPings = <<>>
  /\ pendingChats = {}
  /\ disposed = FALSE
  /\ calls = [c \in Calls |-> NoCall]
  /\ nCalls = 0
  /\ mq = <<>>
  /\ callerTurn = FALSE
  /\ inChunk = FALSE
  /\ readyStatus = "none"
  /\ readyWaiters = <<>>
  /\ failed = FALSE
  /\ alive = 0
  /\ readyRecv = FALSE
  /\ writes = {}
  /\ threw = FALSE
  /\ stdoutBuffer = <<>>
  /\ agent = NoRequest
  /\ snapshotId = 0
  /\ fed = <<>>
  /\ cut = <<>>
  /\ dispatched = <<>>

RECURSIVE SeqToSet(_)
SeqToSet(s) == IF s = <<>> THEN {} ELSE {Head(s)} \cup SeqToSet(Tail(s))


(***************************************************************************)
(* Promises.  A pair st = [calls, mq] is threaded through the settlement   *)
(* helpers: invoking a continuation counts the invocation, settles the     *)
(* promise if it is still pending, and queues the reaction of a subscriber *)
(* as a microtask.                                                         *)
(***************************************************************************)

\* PendingPing.resolve(): the promise created in ping()
ResolveProbe(st, c) ==
  LET cl == st.calls[c] IN
  IF cl.probe = "pending"
  THEN [calls |-> [st.calls EXCEPT ![c] =
                     [cl EXCEPT !.probe = "resolved", !.pRes = @ + 1,
                                !.pc = IF cl.pc = "waitPong" THEN "PG_settle" ELSE @]],
        mq |-> IF cl.pc = "waitPong" THEN Append(st.mq, c) ELSE st.mq]
  ELSE [calls |-> [st.calls EXCEPT ![c].pRes = @ + 1], mq |-> st.mq]

\* Variant: a probe is never rejected.
RejectProbeNone(st, c, e) == st

\* Variant: rejecting one probe rejects every probe that is pending.
RejectProbeAll(st, c, e) ==
  [calls |-> [d \in Calls |->
                IF st.calls[d].probe = "pending"
                THEN [st.calls[d] EXCEPT !.probe = "rejected", !.perr = e,
                                         !.pRej = @ + 1, !.timer = FALSE]
                ELSE st.calls[d]],
   mq |-> st.mq]

\* PendingPing.reject(error)
RejectProbe(st, c, e) ==
  LET cl == st.calls[c] IN
  IF cl.probe = "pending"
  THEN [calls |-> [st.calls EXCEPT ![c] =
                     [cl EXCEPT !.probe = "rejected", !.perr = e, !.pRej = @ + 1,
                                !.pc = IF cl.pc = "waitPong" THEN "PG_settle" ELSE @]],
        mq |-> IF cl.pc = "waitPong" THEN Append(st.mq, c) ELSE st.mq]
  ELSE [calls |-> [st.calls EXCEPT ![c].pRej = @ + 1], mq |-> st.mq]

\* Variant: the queued probes are dropped without being rejected.
DropProbes(st, q, e) == st

\* for (const pending of this.pendingPings) { clearTimeout; pending.reject }
RECURSIVE RejectProbes(_, _, _)
RejectProbes(st, q, e) ==
  IF q = <<>> THEN st
  ELSE LET c == Head(q)
           s1 == [st EXCEPT !.calls[c].timer = FALSE]
       IN RejectProbes(RejectProbe(s1, c, e), Tail(q), e)

\* PendingRun.resolve / PendingChat.resolve.  The promise of a run carries
\* the finally callback once runWorkflow has attached it (pc "running"); the
\* promise sendChatPrompt returned follows the chat's promise once its
\* thenable job has subscribed (pc "chatting").
ResolveOp(st, c) ==
  LET cl == st.calls[c] IN
  IF cl.opst = "pending"
  THEN [calls |-> [st.calls EXCEPT ![c] =
                     [cl EXCEPT !.opst = "resolved", !.oRes = @ + 1,
                                !.pc = IF cl.pc = "running" THEN "finally"
                                       ELSE IF cl.pc = "chatting" THEN "C_settle"
                                       ELSE @]],
        mq |-> IF cl.pc \in {"running", "chatting"} THEN Append(st.mq, c) ELSE st.mq]
  ELSE [calls |-> [st.calls EXCEPT ![c].oRes = @ + 1], mq |-> st.mq]

\* PendingRun.reject / PendingChat.reject
RejectOp(st, c, e) ==
  LET cl == st.calls[c] IN
  IF cl.opst = "pending"
  THEN [calls |-> [st.calls EXCEPT ![c] =
                     [cl EXCEPT !.opst = "rejected", !.operr = e, !.oRej = @ + 1,
                                !.pc = IF cl.pc = "running" THEN "finally"
                                       ELSE IF cl.pc = "chatting" THEN "C_settle"
                                       ELSE @]],
        mq |-> IF cl.pc \in {"running", "chatting"} THEN Append(st.mq, c) ELSE st.mq]
  ELSE [calls |-> [st.calls EXCEPT ![c].oRej = @ + 1], mq |-> st.mq]

\* Variant: the registered chats are dropped without being rejected.
DropChats(st, S, e) == st

\* this.pendingChats.forEach((pending, id) => { pending.reject; delete })
RECURSIVE RejectChats(_, _, _)
RejectChats(st, S, e) ==
  IF S = {} THEN st
  ELSE LET c == CHOOSE x \in S : \A y \in S : x <= y
       IN RejectChats(RejectOp(st, c, e), S \ {c}, e)

\* if (this.activeRun) { this.activeRun.reject(e); this.activeRun = undefined }
RejectActiveRun(st, e) ==
  IF activeRun.cid # 0 THEN RejectOp(st, activeRun.cid, e) ELSE st

\* Settling the readyPromise queues the reaction of every subscriber.
\* e is "" when the promise resolved, else the rejection.
RECURSIVE WakeWaiters(_, _, _)
WakeWaiters(st, q, e) ==
  IF q = <<>> THEN st
  ELSE LET c == Head(q)
           pcn == IF st.calls[c].pc = "waitReady1" THEN "E1_settle" ELSE "E2_settle"
       IN WakeWaiters([calls |-> [st.calls EXCEPT ![c] =
                                    [@ EXCEPT !.pc = pcn, !.err = e]],
                       mq |-> Append(st.mq, c)], Tail(q), e)

(***************************************************************************)
(* sendMessage and ensureStarted                                           *)
(***************************************************************************)

\* sendMessage: throws unless this.child && this.child.stdin.writable
CanSend == child # 0 /\ stdinWritable

\* the record of one child.stdin.write
Written(kind, c) ==
  [kind |-> kind, call |-> c, ready |-> readyRecv]

\* The frame buffer of the client and the record of what went through it.
agentVars == <<agent, snapshotId>>

frameVars == <<stdoutBuffer, fed, cut, dispatched>>

procVars == <<child, stdinWritable, readyPromise, readyResolver, readyRejector,
              readyTimeout, timerArmed, readyStatus, alive, readyRecv, frameVars>>

\* The characters of a buffer once the process that wrote them has ended.
Aged(buf) == [i \in 1..Len(buf) |-> [buf[i] EXCEPT !.old = TRUE]]

\* Variant: the buffer is kept.
DiscardNot(buf) == buf

\* this.stdoutBuffer = ""
Discard(buf) == <<>>

\* Variant: ensureStarted does not look at the disposed flag.
IsDisposedNever == FALSE

\* if (this.disposed) throw new Error("Engine client is disposed.")
IsDisposed == disposed

\* if (this.child && this.readyPromise) return this.readyPromise
Started == child # 0 /\ readyPromise # 0

\* Variant: ensureStarted does not reuse the child it already has.
NeedSpawnAlways == ~IsDisposed

\* ensureStarted up to its return: spawns a process and creates a new
\* readyPromise unless the client is disposed or a child is already there.
NeedSpawn == ~IsDisposed /\ ~Started

EnsureStartedSync ==
  IF NeedSpawn
  THEN /\ child' = 1
       /\ alive' = alive + 1
       /\ stdinWritable' = TRUE
       /\ readyPromise' = 1
       /\ readyResolver' = TRUE
       /\ readyRejector' = TRUE
       /\ readyTimeout' = TRUE
       /\ timerArmed' = TRUE
       /\ readyStatus' = "pending"
       /\ readyRecv' = FALSE
       /\ stdoutBuffer' = Discard(stdoutBuffer)
       /\ fed' = <<>>
       /\ cut' = <<>>
       /\ dispatched' = <<>>
  ELSE UNCHANGED procVars

\* The call record after ensureStarted returned: a rejected promise when
\* disposed (its reaction is the continuation itself), else a promise
\* resolved with this.readyPromise (a thenable job comes first).
Entered(cl, thenPc, failPc) ==
  IF IsDisposed
  THEN [cl EXCEPT !.err = "disposed", !.pc = failPc]
  ELSE [cl EXCEPT !.gen = 1, !.pc = thenPc]


(***************************************************************************)
(* Public methods, up to their first await.                                *)
(***************************************************************************)

regVars == <<activeRun, pendingPings, pendingChats>>

\* Extension code runs in a macrotask of its own (a command, an event), in
\* the same turn after other extension code, or as a reaction to a call's
\* promise having settled; never inside an engine event or timer callback.
CallerMayAct == mq = <<>> \/ callerTurn

\* Settling the promise a public method returned queues the extension's
\* reaction to it behind the microtasks already queued.
Notify(q) == IF callerTurn \/ 0 \in SeqToSet(q) THEN q ELSE Append(q, 0)

\* runWorkflow(): await this.ensureStarted()
CallRun ==
  /\ CallerMayAct
  /\ nCalls + 1 \in Calls
  /\ EnsureStartedSync
  /\ nCalls' = nCalls + 1
  /\ calls' = [calls EXCEPT ![nCalls + 1] =
                 Entered([NoCall EXCEPT !.op = "run", !.late = disposed,
                                        !.startBusy = activeRun.cid # 0],
                         "E1_then", "afterE1")]
  /\ mq' = Append(mq, nCalls + 1)
  /\ callerTurn' = TRUE
  /\ threw' = FALSE
  /\ UNCHANGED agentVars
  /\ inChunk' = FALSE
  /\ UNCHANGED <<regVars, disposed, failed, readyWaiters, writes>>

\* sendChatPrompt(): await this.ensureStarted()
CallChat ==
  /\ CallerMayAct
  /\ nCalls + 1 \in Calls
  /\ EnsureStartedSync
  /\ nCalls' = nCalls + 1
  /\ calls' = [calls EXCEPT ![nCalls + 1] =
                 Entered([NoCall EXCEPT !.op = "chat", !.late = disposed],
                         "E1_then", "afterE1")]
  /\ mq' = Append(mq, nCalls + 1)
  /\ callerTurn' = TRUE
  /\ threw' = FALSE
  /\ UNCHANGED agentVars
  /\ inChunk' = FALSE
  /\ UNCHANGED <<regVars, disposed, failed, readyWaiters, writes>>

\* ping() called by the extension: await this.ensureStarted()
CallPing ==
  /\ CallerMayAct
  /\ nCalls + 1 \in Calls
  /\ EnsureStartedSync
  /\ nCalls' = nCalls + 1
  /\ calls' = [calls EXCEPT ![nCalls + 1] =
                 Entered([NoCall EXCEPT !.op = "ping", !.late = disposed],
                         "E2_then", "afterE2")]
  /\ mq' = Append(mq, nCalls + 1)
  /\ callerTurn' = TRUE
  /\ threw' = FALSE
  /\ UNCHANGED agentVars
  /\ inChunk' = FALSE
  /\ UNCHANGED <<regVars, disposed, failed, readyWaiters, writes>>

(***************************************************************************)
(* Microtasks: the head of mq runs.                                        *)
(***************************************************************************)

\* Variant: ensureStarted does not wait for READY.
ReadyStatusNoWait(g) == "resolved"

\* The state of the readyPromise a call captured when ensureStarted
\* returned it.  The promise a queued thenable job holds is always the one
\* this.readyPromise still refers to: a new promise is created only after
\* teardown, which runs when no microtask is queued.
ReadyStatusOf(g) == IF g = readyPromise THEN readyStatus ELSE "stale"

\* NewPromiseResolveThenableJob of `return this.readyPromise`: subscribes to
\* the readyPromise, whose reaction is queued at once if it is settled.
EnsureThen(c) ==
  /\ calls[c].pc \in {"E1_then", "E2_then"}
  /\ LET first == calls[c].pc = "E1_then"
         st == ReadyStatusOf(calls[c].gen)
         pend == st = "pending"
     IN /\ calls' = [calls EXCEPT ![c] =
                       [@ EXCEPT !.gen = 0,
                                 !.err = IF pend \/ st = "resolved" THEN "" ELSE st,
                                 !.pc = IF pend
                                        THEN (IF first THEN "waitReady1" ELSE "waitReady2")
                                        ELSE (IF first THEN "E1_settle" ELSE "E2_settle")]]
        /\ readyWaiters' = IF pend THEN Append(readyWaiters, c) ELSE readyWaiters
        /\ mq' = IF pend THEN Tail(mq) ELSE Append(Tail(mq), c)
  /\ UNCHANGED <<procVars, failed, regVars, disposed, nCalls, writes>>

\* The promise ensureStarted returned settles as the readyPromise did.
EnsureSettle(c) ==
  /\ calls[c].pc \in {"E1_settle", "E2_settle"}
  /\ calls' = [calls EXCEPT ![c].pc = IF calls[c].pc = "E1_settle"
                                      THEN "afterE1" ELSE "afterE2"]
  /\ mq' = Append(Tail(mq), c)
  /\ UNCHANGED <<procVars, failed, regVars, disposed, nCalls, readyWaiters, writes>>

\* runWorkflow / sendChatPrompt after `await this.ensureStarted()`: rethrow,
\* or call this.ping(), which runs ensureStarted again up to its await.
AfterEnsure(c) ==
  /\ calls[c].pc = "afterE1"
  /\ IF calls[c].err # ""
     THEN /\ calls' = [calls EXCEPT ![c] =
                         [@ EXCEPT !.result = calls[c].err, !.err = "", !.pc = "done"]]
          /\ mq' = Notify(Tail(mq))
          /\ UNCHANGED procVars
     ELSE /\ EnsureStartedSync
          /\ calls' = [calls EXCEPT ![c] = Entered(@, "E2_then", "afterE2")]
          /\ mq' = Append(Tail(mq), c)
  /\ UNCHANGED <<regVars, disposed, failed, nCalls, readyWaiters, writes>>

\* What a failed ping() means for the call: ping() called directly rejects;
\* inside runWorkflow / sendChatPrompt the rejection reaches `await
\* this.ping()` one microtask later.
PingFailed(cl, e) ==
  IF cl.op = "ping"
  THEN [cl EXCEPT !.result = e, !.err = "", !.pc = "done"]
  ELSE [cl EXCEPT !.err = e, !.pc = "afterPing"]

\* Number of PendingPings enqueued so far.
Issued == Cardinality({d \in Calls : calls[d].seq # 0})

\* ping() after `await this.ensureStarted()`: enqueue a PendingPing with its
\* timer, then sendMessage({type: "PING"}).
PingBody(c) ==
  /\ calls[c].pc = "afterE2"
  /\ IF calls[c].err # ""
     THEN /\ calls' = [calls EXCEPT ![c] = PingFailed(@, calls[c].err)]
          /\ mq' = IF calls[c].op = "ping" THEN Notify(Tail(mq))
                   ELSE Append(Tail(mq), c)
          /\ UNCHANGED <<pendingPings, writes>>
     ELSE /\ pendingPings' = Append(pendingPings, c)
          /\ IF CanSend
             THEN /\ writes' = writes \cup {Written("PING", c)}
                  /\ calls' = [calls EXCEPT ![c] =
                                 [@ EXCEPT !.probe = "pending", !.timer = TRUE,
                                           !.seq = Issued + 1, !.pc = "PG_then"]]
                  /\ mq' = Append(Tail(mq), c)
             ELSE /\ writes' = writes
                  /\ calls' = [calls EXCEPT ![c] =
                                 PingFailed([@ EXCEPT !.probe = "pending",
                                                      !.timer = TRUE,
                                                      !.seq = Issued + 1],
                                            "unavailable")]
                  /\ mq' = IF calls[c].op = "ping" THEN Notify(Tail(mq))
                           ELSE Append(Tail(mq), c)
  /\ UNCHANGED <<procVars, failed, activeRun, pendingChats, disposed, nCalls,
                 readyWaiters>>

\* NewPromiseResolveThenableJob of `return promise` in ping()
PingThen(c) ==
  /\ calls[c].pc = "PG_then"
  /\ IF calls[c].probe = "pending"
     THEN /\ calls' = [calls EXCEPT ![c].pc = "waitPong"]
          /\ mq' = Tail(mq)
     ELSE /\ calls' = [calls EXCEPT ![c].pc = "PG_settle"]
          /\ mq' = Append(Tail(mq), c)
  /\ UNCHANGED <<procVars, failed, regVars, disposed, nCalls, readyWaiters, writes>>

\* The promise ping() returned settles as the PendingPing's promise did.
PingSettle(c) ==
  /\ calls[c].pc = "PG_settle"
  /\ LET cl == calls[c]
         e == IF cl.probe = "resolved" THEN "" ELSE cl.perr
     IN IF cl.op = "ping"
        THEN /\ calls' = [calls EXCEPT ![c] =
                            [@ EXCEPT !.result = IF e = "" THEN "resolved" ELSE e,
                                      !.pc = "done"]]
             /\ mq' = Notify(Tail(mq))
        ELSE /\ calls' = [calls EXCEPT ![c] = [@ EXCEPT !.err = e, !.pc = "afterPing"]]
             /\ mq' = Append(Tail(mq), c)
  /\ UNCHANGED <<procVars, failed, regVars, disposed, nCalls, readyWaiters, writes>>

\* Variant: the busy check rejects every call.
BusyAlways == TRUE

\* Variant: the busy check is missing.
BusyNever == FALSE

\* if (this.activeRun) throw new Error("... already busy with another run.")
Busy == activeRun.cid # 0

\* runWorkflow after `await this.ping()`: the busy check, the PendingRun,
\* the cancellation listener, sendMessage(RUN_WORKFLOW), and the finally
\* callback attached to the run's promise.
RunBody(c) ==
  /\ calls[c].pc = "afterPing"
  /\ calls[c].op = "run"
  /\ IF calls[c].err # ""
     THEN /\ calls' = [calls EXCEPT ![c] =
                         [@ EXCEPT !.result = calls[c].err, !.err = "", !.pc = "done"]]
          /\ mq' = Notify(Tail(mq))
          /\ UNCHANGED <<activeRun, writes>>
     ELSE IF Busy
     THEN /\ calls' = [calls EXCEPT ![c] = [@ EXCEPT !.result = "busy", !.pc = "done"]]
          /\ mq' = Notify(Tail(mq))
          /\ UNCHANGED <<activeRun, writes>>
     ELSE /\ activeRun' = PendingRun(c)
          /\ IF CanSend
             THEN /\ writes' = writes \cup {Written("RUN_WORKFLOW", c)}
                  /\ calls' = [calls EXCEPT ![c] =
                                 [@ EXCEPT !.opst = "pending", !.cancel = "armed",
                                           !.pc = "running"]]
                  /\ mq' = Tail(mq)
             ELSE /\ writes' = writes
                  /\ calls' = [calls EXCEPT ![c] =
                                 [@ EXCEPT !.opst = "pending", !.cancel = "armed",
                                           !.result = "unavailable", !.pc = "done"]]
                  /\ mq' = Notify(Tail(mq))
  /\ UNCHANGED <<procVars, failed, pendingPings, pendingChats, disposed, nCalls,
                 readyWaiters>>

\* sendChatPrompt after `await this.ping()`: register the PendingChat and
\* sendMessage(CHAT_REQUEST); a failed send deletes the entry and rejects.
\* The promise is returned from the async method: a thenable job follows.
ChatBody(c) ==
  /\ calls[c].pc = "afterPing"
  /\ calls[c].op = "chat"
  /\ IF calls[c].err # ""
     THEN /\ calls' = [calls EXCEPT ![c] =
                         [@ EXCEPT !.result = calls[c].err, !.err = "", !.pc = "done"]]
          /\ mq' = Notify(Tail(mq))
          /\ UNCHANGED <<pendingChats, writes>>
     ELSE IF CanSend
     THEN /\ pendingChats' = pendingChats \cup {c}
          /\ writes' = writes \cup {Written("CHAT_REQUEST", c)}
          /\ calls' = [calls EXCEPT ![c] =
                         [@ EXCEPT !.opst = "pending", !.pc = "C_then"]]
          /\ mq' = Append(Tail(mq), c)
     ELSE /\ pendingChats' = pendingChats \ {c}
          /\ writes' = writes
          /\ calls' = [calls EXCEPT ![c] =
                         [@ EXCEPT !.opst = "rejected", !.operr = "unavailable",
                                   !.oRej = @ + 1, !.pc = "C_then"]]
          /\ mq' = Append(Tail(mq), c)
  /\ UNCHANGED <<procVars, failed, activeRun, pendingPings, disposed, nCalls,
                 readyWaiters>>

\* runPromise.finally(() => { this.activeRun = undefined })
RunFinally(c) ==
  /\ calls[c].pc = "finally"
  /\ mq' = Append(Tail(mq), c)
  /\ activeRun' = NoRun
  /\ calls' = [calls EXCEPT ![c].pc = "F_then"]
  /\ UNCHANGED <<procVars, failed, pendingPings, pendingChats, disposed, nCalls,
                 readyWaiters, writes>>

\* `return runPromise.finally(...)`: the promise finally() returned is
\* resolved with the promise its callback wrapper returns (a thenable job,
\* then that promise's reaction), and its own reaction settles the promise
\* runWorkflow returned.
RunReturn(c) ==
  /\ calls[c].pc \in {"F_then", "F_settle", "R_settle"}
  /\ IF calls[c].pc = "R_settle"
     THEN /\ calls' = [calls EXCEPT ![c] =
                         [@ EXCEPT !.result = IF calls[c].opst = "resolved"
                                              THEN "resolved" ELSE calls[c].operr,
                                   !.pc = "done"]]
          /\ mq' = Notify(Tail(mq))
     ELSE /\ calls' = [calls EXCEPT ![c].pc =
                         IF calls[c].pc = "F_then" THEN "F_settle" ELSE "R_settle"]
          /\ mq' = Append(Tail(mq), c)
  /\ UNCHANGED <<procVars, failed, regVars, disposed, nCalls, readyWaiters, writes>>

\* NewPromiseResolveThenableJob of `return new Promise(...)` in
\* sendChatPrompt
ChatThen(c) ==
  /\ calls[c].pc = "C_then"
  /\ IF calls[c].opst = "pending"
     THEN /\ calls' = [calls EXCEPT ![c].pc = "chatting"]
          /\ mq' = Tail(mq)
     ELSE /\ calls' = [calls EXCEPT ![c].pc = "C_settle"]
          /\ mq' = Append(Tail(mq), c)
  /\ UNCHANGED <<procVars, failed, regVars, disposed, nCalls, readyWaiters, writes>>

\* The promise sendChatPrompt returned settles as the chat's promise did.
ChatSettle(c) ==
  /\ calls[c].pc = "C_settle"
  /\ calls' = [calls EXCEPT ![c] =
                 [@ EXCEPT !.result = IF calls[c].opst = "resolved"
                                      THEN "resolved" ELSE calls[c].operr,
                           !.pc = "done"]]
  /\ mq' = Notify(Tail(mq))
  /\ UNCHANGED <<procVars, failed, regVars, disposed, nCalls, readyWaiters, writes>>

\* The extension's reaction to a settled call reaches the head of the queue.
CallerReaction ==
  /\ mq # <<>>
  /\ Head(mq) = 0
  /\ inChunk' = FALSE
  /\ mq' = Tail(mq)
  /\ callerTurn' = (mq' # <<>>)
  /\ threw' = FALSE
  /\ UNCHANGED agentVars
  /\ UNCHANGED <<procVars, failed, regVars, disposed, calls, nCalls,
                 readyWaiters, writes>>

\* The microtask at the head of the queue is the continuation of call c.
Turn(c) ==
  /\ mq # <<>>
  /\ Head(mq) = c
  /\ inChunk' = FALSE

\* Extension code that ran in this turn may run again later in it.
Kept ==
  /\ callerTurn' = (callerTurn /\ mq' # <<>>)
  /\ threw' = FALSE
  /\ UNCHANGED agentVars

Microtask ==
  \/ CallerReaction
  \/ \E c \in Calls : Turn(c) /\ EnsureThen(c) /\ Kept
  \/ \E c \in Calls : Turn(c) /\ EnsureSettle(c) /\ Kept
  \/ \E c \in Calls : Turn(c) /\ AfterEnsure(c) /\ Kept
  \/ \E c \in Calls : Turn(c) /\ PingBody(c) /\ Kept
  \/ \E c \in Calls : Turn(c) /\ PingThen(c) /\ Kept
  \/ \E c \in Calls : Turn(c) /\ PingSettle(c) /\ Kept
  \/ \E c \in Calls : Turn(c) /\ RunBody(c) /\ Kept
  \/ \E c \in Calls : Turn(c) /\ ChatBody(c) /\ Kept
  \/ \E c \in Calls : Turn(c) /\ ChatThen(c) /\ Kept
  \/ \E c \in Calls : Turn(c) /\ ChatSettle(c) /\ Kept
  \/ \E c \in Calls : Turn(c) /\ RunFinally(c) /\ Kept
  \/ \E c \in Calls : Turn(c) /\ RunReturn(c) /\ Kept


(***************************************************************************)
(* dispose, the cancellation listener, timers                              *)
(***************************************************************************)

\* dispose()
Dispose ==
  /\ CallerMayAct
  /\ disposed' = TRUE
  /\ LET s1 == RejectProbes([calls |-> calls, mq |-> mq], pendingPings,
                            "clientDisposed")
         s2 == RejectActiveRun(s1, "clientDisposed")
         s3 == RejectChats(s2, pendingChats, "clientDisposed")
     IN /\ calls' = s3.calls
        /\ mq' = s3.mq
        /\ callerTurn' = (s3.mq # <<>>)
        /\ threw' = FALSE
        /\ UNCHANGED agentVars
  /\ pendingPings' = <<>>
  /\ activeRun' = NoRun
  /\ pendingChats' = {}
  /\ alive' = alive - child
  /\ child' = 0
  /\ stdinWritable' = FALSE
  /\ readyRecv' = FALSE
  /\ stdoutBuffer' = Aged(stdoutBuffer)
  /\ inChunk' = FALSE
  /\ UNCHANGED <<readyPromise, readyResolver, readyRejector, readyTimeout,
                 timerArmed, readyStatus, failed, nCalls, readyWaiters, writes,
                 fed, cut, dispatched>>

\* Variant: the cancellation listener settles the run itself.
CancelSettles(c) ==
  /\ CallerMayAct
  /\ calls[c].cancel = "armed"
  /\ IF activeRun.cid # 0 /\ activeRun.cid = c
     THEN /\ LET s1 == RejectOp([calls |-> [calls EXCEPT ![c].cancel = "fired"],
                                 mq |-> mq], c, "cancelled")
             IN calls' = s1.calls /\ mq' = s1.mq
          /\ activeRun' = NoRun
          /\ writes' = IF CanSend THEN writes \cup {Written("CANCEL", c)} ELSE writes
     ELSE /\ calls' = [calls EXCEPT ![c].cancel = "fired"]
          /\ UNCHANGED <<activeRun, writes, mq>>
  /\ inChunk' = FALSE
  /\ callerTurn' = (mq' # <<>>)
  /\ threw' = FALSE
  /\ UNCHANGED agentVars
  /\ UNCHANGED <<procVars, failed, pendingPings, pendingChats, disposed, nCalls,
                 readyWaiters>>

\* token.onCancellationRequested(() => { ... }) of run c fires
Cancel(c) ==
  /\ CallerMayAct
  /\ calls[c].cancel = "armed"
  /\ calls' = [calls EXCEPT ![c].cancel = "fired"]
  /\ IF activeRun.cid # 0 /\ activeRun.cid = c
     THEN /\ activeRun' = [activeRun EXCEPT !.cancelledByUser = TRUE]
          /\ writes' = IF CanSend THEN writes \cup {Written("CANCEL", c)} ELSE writes
     ELSE UNCHANGED <<activeRun, writes>>
  /\ inChunk' = FALSE
  /\ callerTurn' = (mq # <<>>)
  /\ threw' = FALSE
  /\ UNCHANGED agentVars
  /\ UNCHANGED <<procVars, failed, pendingPings, pendingChats, disposed, nCalls, mq,
                 readyWaiters>>

\* A macrotask starts only when no microtask is queued.
Idle == mq = <<>>

\* setTimeout(() => reject(new Error("Engine did not signal readiness.")), 5000)
ReadyTimer ==
  /\ Idle
  /\ callerTurn' = FALSE
  /\ threw' = FALSE
  /\ UNCHANGED agentVars
  /\ timerArmed
  /\ timerArmed' = FALSE
  /\ failed' = TRUE
  /\ IF readyStatus = "pending"
     THEN /\ readyStatus' = "timedOut"
          /\ LET s1 == WakeWaiters([calls |-> calls, mq |-> mq], readyWaiters,
                                   "timedOut")
             IN calls' = s1.calls /\ mq' = s1.mq
          /\ readyWaiters' = <<>>
     ELSE UNCHANGED <<readyStatus, calls, mq, readyWaiters>>
  /\ inChunk' = FALSE
  /\ UNCHANGED <<child, stdinWritable, readyPromise, readyResolver, readyRejector,
                 readyTimeout, alive, readyRecv, regVars, disposed,
                 nCalls, writes, frameVars>>

\* setTimeout(() => reject(new Error("Timed out waiting for engine ping
\* response.")), 5000) of the PendingPing of call c
PingTimer(c) ==
  /\ Idle
  /\ callerTurn' = FALSE
  /\ threw' = FALSE
  /\ UNCHANGED agentVars
  /\ calls[c].timer
  /\ LET s1 == RejectProbe([calls |-> [calls EXCEPT ![c].timer = FALSE], mq |-> mq],
                           c, "pingTimeout")
     IN calls' = s1.calls /\ mq' = s1.mq
  /\ inChunk' = FALSE
  /\ UNCHANGED <<procVars, failed, regVars, disposed, nCalls, readyWaiters, writes>>

(***************************************************************************)
(* Process events                                                          *)
(***************************************************************************)

\* teardown(), applied after the exit / error handler rejected the run
Teardown(s0) ==
  /\ child' = 0
  /\ readyPromise' = 0
  /\ readyResolver' = FALSE
  /\ readyTimeout' = FALSE
  /\ timerArmed' = IF readyTimeout THEN FALSE ELSE timerArmed
  /\ readyRejector' = FALSE
  /\ readyStatus' = "none"
  /\ stdinWritable' = FALSE
  /\ readyRecv' = FALSE
  /\ stdoutBuffer' = Discard(Aged(stdoutBuffer))
  /\ UNCHANGED <<fed, cut, dispatched>>
  /\ LET stop == readyRejector /\ readyStatus = "pending"
         s1 == IF stop THEN WakeWaiters(s0, readyWaiters, "stopped") ELSE s0
         s2 == RejectProbes(s1, pendingPings, "exited")
         s3 == RejectChats(s2, pendingChats, "exited")
     IN /\ readyWaiters' = IF stop THEN <<>> ELSE readyWaiters
        /\ calls' = s3.calls
        /\ mq' = s3.mq
  /\ pendingPings' = <<>>
  /\ pendingChats' = {}

\* this.child.on("exit", ...)
ProcExit ==
  /\ Idle
  /\ callerTurn' = FALSE
  /\ threw' = FALSE
  /\ UNCHANGED agentVars
  /\ child # 0
  /\ alive' = alive - child
  /\ activeRun' = NoRun
  /\ Teardown(RejectActiveRun([calls |-> calls, mq |-> mq], "exitedBeforeCompletion"))
  /\ inChunk' = FALSE
  /\ failed' = TRUE
  /\ UNCHANGED <<disposed, nCalls, writes>>

\* this.child.on("error", ...)
ProcError ==
  /\ Idle
  /\ callerTurn' = FALSE
  /\ threw' = FALSE
  /\ UNCHANGED agentVars
  /\ child # 0
  /\ alive' = alive - child
  /\ activeRun' = NoRun
  /\ Teardown(RejectActiveRun([calls |-> calls, mq |-> mq], "processFailed"))
  /\ inChunk' = FALSE
  /\ failed' = TRUE
  /\ UNCHANGED <<disposed, nCalls, writes>>

\* child.stdin.writable turns false before the exit event is delivered: a
\* write into the pipe of a worker that has terminated fails, and the stream
\* is destroyed.  The client writes to a worker only after its READY.
StdinClose ==
  /\ Idle
  /\ callerTurn' = FALSE
  /\ threw' = FALSE
  /\ UNCHANGED agentVars
  /\ child # 0
  /\ readyRecv
  /\ stdinWritable
  /\ stdinWritable' = FALSE
  /\ inChunk' = FALSE
  /\ UNCHANGED <<child, readyPromise, readyResolver, readyRejector, readyTimeout,
                 timerArmed, readyStatus, failed, alive, readyRecv, regVars,
                 disposed, calls, nCalls, mq, readyWaiters, writes, frameVars>>

(***************************************************************************)
(* handleMessage: one action per message type.  processStdout hands the    *)
(* lines of one data event to handleMessage without returning to the event *)
(* loop, so a line is handled when the loop is idle or right after the     *)
(* previous line of the same chunk.  A worker whose stdin pipe is gone has  *)
(* terminated: what is still delivered for it is its exit or error event.  *)
(***************************************************************************)

CanDeliver == child # 0 /\ stdinWritable /\ (Idle \/ inChunk)

\* case "READY"
OnReady ==
  /\ CanDeliver
  /\ callerTurn' = FALSE
  /\ threw' = FALSE
  /\ UNCHANGED agentVars
  /\ readyRecv' = TRUE
  /\ IF readyResolver /\ readyStatus = "pending"
     THEN /\ readyStatus' = "resolved"
          /\ LET s1 == WakeWaiters([calls |-> calls, mq |-> mq], readyWaiters, "")
             IN calls' = s1.calls /\ mq' = s1.mq
          /\ readyWaiters' = <<>>
     ELSE UNCHANGED <<readyStatus, calls, mq, readyWaiters>>
  /\ readyResolver' = FALSE
  /\ readyTimeout' = FALSE
  /\ timerArmed' = IF readyTimeout THEN FALSE ELSE timerArmed
  /\ readyRejector' = FALSE
  /\ UNCHANGED <<child, stdinWritable, readyPromise, failed, alive, regVars,
                 disposed, nCalls, writes, frameVars>>
  /\ inChunk' = (mq' # <<>>)

\* Variant: pop() instead of shift().
PopPing(q) == [head |-> q[Len(q)], rest |-> SubSeq(q, 1, Len(q) - 1)]

\* const pending = this.pendingPings.shift()
ShiftPing(q) == [head |-> Head(q), rest |-> Tail(q)]

\* case "PONG"
OnPong ==
  /\ CanDeliver
  /\ callerTurn' = FALSE
  /\ threw' = FALSE
  /\ UNCHANGED agentVars
  /\ IF pendingPings # <<>>
     THEN /\ pendingPings' = ShiftPing(pendingPings).rest
          /\ LET c == ShiftPing(pendingPings).head
                 s1 == ResolveProbe([calls |-> [calls EXCEPT ![c].timer = FALSE],
                                     mq |-> mq], c)
             IN calls' = s1.calls /\ mq' = s1.mq
     ELSE UNCHANGED <<pendingPings, calls, mq>>
  /\ UNCHANGED <<procVars, failed, activeRun, pendingChats, disposed, nCalls,
                 readyWaiters, writes>>
  /\ inChunk' = (mq' # <<>>)


(***************************************************************************)
(* Messages with a payload.  A field the message does not carry is         *)
(* "absent" (<<>> for a number); a pct that is not a number is handled as  *)
(* an absent one is.                                                       *)
(***************************************************************************)
Files == {"f1", "f2"}
Warnings == {"absent", "w1"}
Flags == {"absent", "true", "false"}
Pcts == {<<>>, <<-50>>, <<0>>, <<50>>, <<100>>, <<150>>}
Steps == {"absent", "s1"}

\* The tokens of the messages that carry a payload: none (0), the token of
\* the first call (1) and a token of another or of no operation (2).
RunTokens == 0..2

CompleteMsgs ==
  [correlationId : RunTokens, files : Files, warnings : Warnings, cancelled : Flags]

ProgressMsgs == [correlationId : RunTokens, pct : Pcts, step : Steps]

\* The COMPLETE message of token t with one file list and nothing else.
PlainComplete(t) ==
  [correlationId |-> t, files |-> "f1", warnings |-> "absent", cancelled |-> "absent"]

\* Variant: the cancelled flag is taken from the run, not from the message.
RunResultOwnFlag(m) ==
  [files |-> m.files, warnings |-> m.warnings,
   cancelled |-> activeRun.cancelledByUser]

\* { files: parsed.files, warnings: parsed.warnings,
\*   cancelled: parsed.cancelled ?? false }
RunResult(m) ==
  [files |-> m.files, warnings |-> m.warnings, cancelled |-> m.cancelled = "true"]

\* Variant: a message is taken for the pending run whatever its token.
MatchesRunAny(t) == activeRun.cid # 0

\* this.activeRun && this.activeRun.correlationId === parsed.correlationId
MatchesRun(t) == activeRun.cid # 0 /\ activeRun.cid = t

\* case "COMPLETE"
OnComplete(m) ==
  /\ CanDeliver
  /\ callerTurn' = FALSE
  /\ threw' = FALSE
  /\ UNCHANGED agentVars
  /\ IF MatchesRun(m.correlationId)
     THEN /\ LET c == activeRun.cid
                 s0 == [calls |-> IF calls[c].opst = "pending"
                                  THEN [calls EXCEPT ![c].value = RunResult(m)]
                                  ELSE calls,
                        mq |-> mq]
                 s1 == ResolveOp(s0, c)
             IN calls' = s1.calls /\ mq' = s1.mq
          /\ activeRun' = NoRun
     ELSE UNCHANGED <<calls, mq, activeRun>>
  /\ UNCHANGED <<procVars, failed, pendingPings, pendingChats, disposed, nCalls,
                 readyWaiters, writes>>
  /\ inChunk' = (mq' # <<>>)

Max(a, b) == IF a >= b THEN a ELSE b

\* Variant: the increment is the difference, negative or not.
IncrementRaw(pct, lastPct) ==
  IF pct # <<>> /\ pct[1] >= 0 /\ pct[1] <= 100
  THEN <<pct[1] - (IF lastPct = <<>> THEN 0 ELSE lastPct[1])>>
  ELSE <<>>

\* typeof pct === "number" && pct >= 0 && pct <= 100
\*   ? Math.max(0, pct - (lastPct ?? 0)) : undefined
Increment(pct, lastPct) ==
  IF pct # <<>> /\ pct[1] >= 0 /\ pct[1] <= 100
  THEN <<Max(0, pct[1] - (IF lastPct = <<>> THEN 0 ELSE lastPct[1]))>>
  ELSE <<>>

\* progress.report({ message: parsed.step ?? "Working...", increment })
Report(m, lastPct) ==
  [message |-> IF m.step = "absent" THEN "Working..." ELSE m.step,
   increment |-> Increment(m.pct, lastPct)]

\* case "PROGRESS"
OnProgress(m) ==
  /\ CanDeliver
  /\ callerTurn' = FALSE
  /\ threw' = FALSE
  /\ UNCHANGED agentVars
  /\ IF MatchesRun(m.correlationId)
     THEN /\ Len(activeRun.progress) < MaxProgress
          /\ activeRun' =
               [activeRun EXCEPT
                  !.lastPct = IF m.pct # <<>> THEN m.pct ELSE @,
                  !.progress = Append(@, Report(m, activeRun.lastPct))]
     ELSE UNCHANGED activeRun
  /\ UNCHANGED <<procVars, failed, pendingPings, pendingChats, disposed, calls,
                 nCalls, mq, readyWaiters, writes>>
  /\ inChunk' = (mq' # <<>>)

\* case "ERROR"
\* Variant: an ERROR that no run takes is attached to some pending chat.
ErrorChatAny(t) ==
  IF t \in pendingChats THEN t
  ELSE IF pendingChats # {} THEN CHOOSE c \in pendingChats : TRUE ELSE 0

\* parsed.correlationId && this.pendingChats.has(parsed.correlationId):
\* the pending chat an ERROR with token t is attached to, 0 for none.
ErrorChat(t) ==
  IF t # 0 /\ t \in pendingChats THEN t ELSE 0

\* Variant: every ERROR is taken for the pending run.
ErrorHitsRunAny(t) ==
  activeRun.cid # 0

\* Variant: every ERROR that matches no pending chat is taken for the run.
ErrorHitsRunUnmatched(t) ==
  activeRun.cid # 0 /\ (t = 0 \/ t = activeRun.cid \/ t \notin pendingChats)

\* this.activeRun && (!parsed.correlationId ||
\*                    parsed.correlationId === this.activeRun.correlationId)
ErrorHitsRun(t) ==
  activeRun.cid # 0 /\ (t = 0 \/ t = activeRun.cid)

OnError(t) ==
  /\ CanDeliver
  /\ callerTurn' = FALSE
  /\ threw' = FALSE
  /\ UNCHANGED agentVars
  /\ IF ErrorHitsRun(t)
     THEN /\ LET s1 == RejectOp([calls |-> calls, mq |-> mq], activeRun.cid,
                                "workerError")
             IN calls' = s1.calls /\ mq' = s1.mq
          /\ activeRun' = NoRun
          /\ UNCHANGED pendingChats
     ELSE IF ErrorChat(t) # 0
     THEN /\ LET s1 == RejectOp([calls |-> calls, mq |-> mq], ErrorChat(t),
                                "workerError")
             IN calls' = s1.calls /\ mq' = s1.mq
          /\ pendingChats' = pendingChats \ {ErrorChat(t)}
          /\ UNCHANGED activeRun
     ELSE UNCHANGED <<calls, mq, activeRun, pendingChats>>
  /\ UNCHANGED <<procVars, failed, pendingPings, disposed, nCalls, readyWaiters,
                 writes>>
  /\ inChunk' = (mq' # <<>>)

\* case "CHAT_RESPONSE"
\* Variant: a CHAT_RESPONSE is handed to some pending chat.
ResponseChatAny(t) ==
  IF t \in pendingChats THEN t
  ELSE IF pendingChats # {} THEN CHOOSE c \in pendingChats : TRUE ELSE 0

\* this.pendingChats.get(parsed.correlationId): the pending chat registered
\* under token t, 0 for undefined.
ResponseChat(t) ==
  IF t \in pendingChats THEN t ELSE 0

OnChatResponse(t) ==
  /\ CanDeliver
  /\ callerTurn' = FALSE
  /\ threw' = FALSE
  /\ UNCHANGED agentVars
  /\ IF ResponseChat(t) # 0
     THEN /\ LET s1 == ResolveOp([calls |-> calls, mq |-> mq], ResponseChat(t))
             IN calls' = s1.calls /\ mq' = s1.mq
          /\ pendingChats' = pendingChats \ {ResponseChat(t)}
     ELSE UNCHANGED <<calls, mq, pendingChats>>
  /\ UNCHANGED <<procVars, failed, activeRun, pendingPings, disposed, nCalls,
                 readyWaiters, writes>>
  /\ inChunk' = (mq' # <<>>)

\* case "ASK_USER"
\* Variant: every ASK_USER is taken for the pending run.
AskUserHitsRunAny(t) ==
  activeRun.cid # 0

\* this.activeRun && this.activeRun.correlationId === parsed.correlationId
AskUserHitsRun(t) ==
  activeRun.cid # 0 /\ activeRun.cid = t

OnAskUser(t) ==
  /\ CanDeliver
  /\ callerTurn' = FALSE
  /\ threw' = FALSE
  /\ UNCHANGED agentVars
  /\ IF AskUserHitsRun(t)
     THEN /\ LET s1 == RejectOp([calls |-> calls, mq |-> mq], activeRun.cid, "askUser")
             IN calls' = s1.calls /\ mq' = s1.mq
          /\ activeRun' = NoRun
     ELSE UNCHANGED <<calls, mq, activeRun>>
  /\ UNCHANGED <<procVars, failed, pendingPings, pendingChats, disposed, nCalls,
                 readyWaiters, writes>>
  /\ inChunk' = (mq' # <<>>)

\* A line holding the JSON value null: JSON.parse returns null and the read
\* of parsed.type throws a TypeError, which leaves handleMessage and the loop
\* of processStdout.  The line itself was already cut off the buffer.
OnNullLine ==
  /\ CanDeliver
  /\ callerTurn' = FALSE
  /\ threw' = TRUE
  /\ UNCHANGED agentVars
  /\ inChunk' = FALSE
  /\ UNCHANGED <<procVars, failed, regVars, disposed, calls, nCalls, mq, readyWaiters,
                 writes>>

\* case "LOG", the default case and the JSON.parse catch: logged only
OnLogged ==
  /\ CanDeliver
  /\ callerTurn' = FALSE
  /\ threw' = FALSE
  /\ UNCHANGED agentVars
  /\ UNCHANGED <<procVars, failed, regVars, disposed, calls, nCalls, mq, readyWaiters,
                 writes>>
  /\ inChunk' = (mq' # <<>>)

Next ==
  \/ nCalls < MaxCalls /\ CallRun
  \/ nCalls < MaxCalls /\ CallChat
  \/ nCalls < MaxCalls /\ CallPing
  \/ Microtask
  \/ Dispose
  \/ \E c \in Calls : Cancel(c)
  \/ ReadyTimer
  \/ \E c \in Calls : PingTimer(c)
  \/ ProcExit
  \/ ProcError
  \/ StdinClose
  \/ OnReady
  \/ OnPong
  \/ \E t \in Tokens : OnComplete(PlainComplete(t))
  \/ \E t \in Tokens : OnError(t)
  \/ \E t \in Tokens : OnChatResponse(t)
  \/ \E t \in Tokens : OnAskUser(t)
  \/ OnLogged
  \/ OnNullLine

Spec == Init /\ [][Next]_vars

\* One runWorkflow call and every message the worker may send about it,
\* with the payloads of COMPLETE and PROGRESS.
RunNext ==
  \/ nCalls = 0 /\ CallRun
  \/ \E c \in Calls : Turn(c) /\ EnsureThen(c) /\ Kept
  \/ \E c \in Calls : Turn(c) /\ EnsureSettle(c) /\ Kept
  \/ \E c \in Calls : Turn(c) /\ AfterEnsure(c) /\ Kept
  \/ \E c \in Calls : Turn(c) /\ PingBody(c) /\ Kept
  \/ \E c \in Calls : Turn(c) /\ PingThen(c) /\ Kept
  \/ \E c \in Calls : Turn(c) /\ PingSettle(c) /\ Kept
  \/ \E c \in Calls : Turn(c) /\ RunBody(c) /\ Kept
  \/ \E c \in Calls : Turn(c) /\ RunFinally(c) /\ Kept
  \/ \E c \in Calls : Turn(c) /\ RunReturn(c) /\ Kept
  \/ CallerReaction
  \/ \E c \in Calls : Cancel(c)
  \/ OnReady
  \/ OnPong
  \/ \E m \in ProgressMsgs : OnProgress(m)
  \/ \E m \in CompleteMsgs : OnComplete(m)
  \/ \E t \in Tokens : OnError(t)
  \/ \E t \in Tokens : OnAskUser(t)

RunSpec == Init /\ [][RunNext]_vars

\* The PROGRESS messages of two calls of runWorkflow: a percentage and no
\* step text.
BusyProgressMsgs ==
  {m \in ProgressMsgs : m.step = "absent" /\ m.pct \in {<<50>>, <<100>>}}

\* Two calls of runWorkflow on one client and a worker that answers them.
BusyNext ==
  \/ nCalls < 2 /\ CallRun
  \/ \E c \in Calls : Turn(c) /\ EnsureThen(c) /\ Kept
  \/ \E c \in Calls : Turn(c) /\ EnsureSettle(c) /\ Kept
  \/ \E c \in Calls : Turn(c) /\ AfterEnsure(c) /\ Kept
  \/ \E c \in Calls : Turn(c) /\ PingBody(c) /\ Kept
  \/ \E c \in Calls : Turn(c) /\ PingThen(c) /\ Kept
  \/ \E c \in Calls : Turn(c) /\ PingSettle(c) /\ Kept
  \/ \E c \in Calls : Turn(c) /\ RunBody(c) /\ Kept
  \/ \E c \in Calls : Turn(c) /\ RunFinally(c) /\ Kept
  \/ \E c \in Calls : Turn(c) /\ RunReturn(c) /\ Kept
  \/ CallerReaction
  \/ \E c \in Calls : Cancel(c)
  \/ OnReady
  \/ OnPong
  \/ \E m \in BusyProgressMsgs : OnProgress(m)
  \/ \E t \in Tokens : OnComplete(PlainComplete(t))

BusySpec == Init /\ [][BusyNext]_vars

\* Two calls of runWorkflow and then a call of ping() on one client, a
\* worker that answers them, and an extension that may dispose the client.
TrioNext ==
  \/ nCalls < 2 /\ CallRun
  \/ nCalls = 2 /\ CallPing
  \/ \E c \in Calls : Turn(c) /\ EnsureThen(c) /\ Kept
  \/ \E c \in Calls : Turn(c) /\ EnsureSettle(c) /\ Kept
  \/ \E c \in Calls : Turn(c) /\ AfterEnsure(c) /\ Kept
  \/ \E c \in Calls : Turn(c) /\ PingBody(c) /\ Kept
  \/ \E c \in Calls : Turn(c) /\ PingThen(c) /\ Kept
  \/ \E c \in Calls : Turn(c) /\ PingSettle(c) /\ Kept
  \/ \E c \in Calls : Turn(c) /\ RunBody(c) /\ Kept
  \/ \E c \in Calls : Turn(c) /\ RunFinally(c) /\ Kept
  \/ \E c \in Calls : Turn(c) /\ RunReturn(c) /\ Kept
  \/ CallerReaction
  \/ Dispose
  \/ OnReady
  \/ OnPong
  \/ \E t \in Tokens : OnComplete(PlainComplete(t))

TrioSpec == Init /\ [][TrioNext]_vars

\* The continuations of ping(), run from the microtask queue.
ProbeMicrotask ==
  \/ CallerReaction
  \/ \E c \in Calls : Turn(c) /\ EnsureThen(c) /\ Kept
  \/ \E c \in Calls : Turn(c) /\ EnsureSettle(c) /\ Kept
  \/ \E c \in Calls : Turn(c) /\ PingBody(c) /\ Kept
  \/ \E c \in Calls : Turn(c) /\ PingThen(c) /\ Kept
  \/ \E c \in Calls : Turn(c) /\ PingSettle(c) /\ Kept

\* Calls of ping() on a client whose worker may answer, stay silent or exit.
ProbeNext ==
  \/ nCalls < MaxCalls /\ CallPing
  \/ ProbeMicrotask
  \/ Dispose
  \/ ReadyTimer
  \/ \E c \in Calls : PingTimer(c)
  \/ ProcExit
  \/ StdinClose
  \/ OnReady
  \/ OnPong

\* The event loop runs every queued microtask, and every armed probe timer
\* fires.
ProbeSpec ==
  /\ Init /\ [][ProbeNext]_vars
  /\ WF_vars(ProbeMicrotask)
  /\ \A c \in Calls : WF_vars(PingTimer(c))

(***************************************************************************)
(* The frame reader.  The worker writes UTF-8 text; a stdout data event    *)
(* hands the client a Buffer holding the next bytes of the stream, cut     *)
(* wherever the pipe cut it.  Bytes: "a" a letter, "s" a space, "n" the    *)
(* line terminator, "L" "T" the lead and the continuation byte of one      *)
(* two-byte character, and "N" for the four bytes of the word null, which  *)
(* the model never splits.  Characters: "a", "s", "n", "N", "e" for the    *)
(* two-byte character and "x" for U+FFFD, each with the mark `old` once    *)
(* the process that wrote it has ended.  The line null is JSON without a   *)
(* type, on which handleMessage throws; no other line over these           *)
(* characters is JSON, so handleMessage logs it and returns.               *)
(***************************************************************************)
Bytes == {"a", "s", "n", "L", "T", "N"}

\* The byte sequences of length k.
BytesOfLen(k) == [1..k -> Bytes]

\* b is the beginning of a UTF-8 text: a continuation byte follows a lead
\* byte and nothing else does.
RECURSIVE Utf8Prefix(_)
Utf8Prefix(b) ==
  IF b = <<>> THEN TRUE
  ELSE IF Head(b) = "T" THEN FALSE
  ELSE IF Head(b) = "L"
       THEN IF Len(b) = 1 THEN TRUE
            ELSE b[2] = "T" /\ Utf8Prefix(Tail(Tail(b)))
       ELSE Utf8Prefix(Tail(b))

\* chunk.toString(): the bytes of one Buffer decoded as UTF-8; a byte that
\* is not part of a complete character inside this Buffer becomes U+FFFD.
RECURSIVE ChunkToString(_)
ChunkToString(b) ==
  IF b = <<>> THEN <<>>
  ELSE IF Head(b) = "L"
       THEN IF Len(b) = 1 THEN <<"x">>
            ELSE IF b[2] = "T"
                 THEN <<"e">> \o ChunkToString(Tail(Tail(b)))
                 ELSE <<"x">> \o ChunkToString(Tail(b))
       ELSE IF Head(b) = "T"
            THEN <<"x">> \o ChunkToString(Tail(b))
            ELSE <<Head(b)>> \o ChunkToString(Tail(b))

\* The characters as the running process wrote them.
Fresh(chars) == [i \in 1..Len(chars) |-> [ch |-> chars[i], old |-> FALSE]]

\* buf.indexOf("\n"), 0 for -1.
IndexOfNewline(buf) ==
  IF \E i \in 1..Len(buf) : buf[i].ch = "n"
  THEN CHOOSE i \in 1..Len(buf) :
         buf[i].ch = "n" /\ \A j \in 1..(i - 1) : buf[j].ch # "n"
  ELSE 0

\* String.prototype.trim
Trim(line) ==
  LET inner == {i \in 1..Len(line) : line[i].ch \notin {"s", "n"}}
  IN IF inner = {} THEN <<>>
     ELSE SubSeq(line, CHOOSE i \in inner : \A j \in inner : i <= j,
                       CHOOSE i \in inner : \A j \in inner : i >= j)

\* The characters of a buffer or line without their marks.
Chars(buf) == [i \in 1..Len(buf) |-> buf[i].ch]

\* handleMessage(raw) throws: JSON.parse(raw) is null and parsed.type is
\* read outside the try.
HandleMessageThrows(raw) == Chars(raw) = <<"N">>

\* processStdout: cuts every terminated line off the buffer, trims it and
\* hands it to handleMessage unless it is empty; an exception of
\* handleMessage ends the loop.
RECURSIVE ProcessStdout(_)
ProcessStdout(st) ==
  LET newlineIndex == IndexOfNewline(st.buffer)
      slice == SubSeq(st.buffer, 1, newlineIndex - 1)
      raw == Trim(slice)
      st1 == [buffer |-> SubSeq(st.buffer, newlineIndex + 1, Len(st.buffer)),
              cut |-> Append(st.cut, slice),
              dispatched |-> IF raw # <<>> THEN Append(st.dispatched, raw)
                             ELSE st.dispatched,
              threw |-> HandleMessageThrows(raw)]
  IN IF newlineIndex = 0 THEN st
     ELSE IF st1.threw THEN st1
     ELSE ProcessStdout(st1)

\* The stdout data handler: this.stdoutBuffer += chunk.toString();
\* this.processStdout().
OnData(chunk) ==
  /\ CanDeliver
  /\ Idle
  /\ Len(fed) + Len(chunk) <= MaxStream
  /\ Utf8Prefix(fed \o chunk)
  /\ fed' = fed \o chunk
  /\ LET st == ProcessStdout([buffer |-> stdoutBuffer \o Fresh(ChunkToString(chunk)),
                              cut |-> cut, dispatched |-> dispatched,
                              threw |-> FALSE])
     IN /\ stdoutBuffer' = st.buffer
        /\ cut' = st.cut
        /\ dispatched' = st.dispatched
        /\ threw' = st.threw
        /\ UNCHANGED agentVars
  /\ callerTurn' = FALSE
  /\ inChunk' = FALSE
  /\ UNCHANGED <<child, stdinWritable, readyPromise, readyResolver, readyRejector,
                 readyTimeout, timerArmed, readyStatus, alive, readyRecv,
                 failed, regVars, disposed, calls, nCalls, mq, readyWaiters, writes>>

\* Two worker processes, one after the other, each writing a stream that
\* reaches the client in chunks of any size.
FrameNext ==
  \/ nCalls < 2 /\ CallPing
  \/ \E c \in Calls : Turn(c) /\ EnsureThen(c) /\ Kept
  \/ \E c \in Calls : Turn(c) /\ EnsureSettle(c) /\ Kept
  \/ \E c \in Calls : Turn(c) /\ PingBody(c) /\ Kept
  \/ CallerReaction
  \/ ProcExit
  \/ Dispose
  \/ /\ CanDeliver /\ Idle
     /\ \E k \in 1..(MaxStream - Len(fed)) :
           \E chunk \in BytesOfLen(k) : OnData(chunk)

FrameSpec == Init /\ [][FrameNext]_vars

(***************************************************************************)
(* The chat participant (chatAgent.ts).  The request handler turns the     *)
(* actions of a chat response into canvas commands, posts them to the      *)
(* webview and, for run_workflow, executes the run command.  The webview   *)
(* answers a change of its document with a workflow/update message whose   *)
(* payload the panel stores; generatedAt is the time of that message, and  *)
(* the model gives every published snapshot a value of its own.            *)
(***************************************************************************)
engineVars == <<procVars, regVars, calls, nCalls, mq, callerTurn, inChunk,
                readyWaiters, writes, threw, disposed, failed>>

\* applyCommands(commands, panelManager, response): the commands were
\* posted to the canvas.
Posted(nCommands, hasPanel) == nCommands > 0 /\ hasPanel

\* applyCommands(commands, panelManager, response): the promised value.
CommandsApplied(nCommands, hasPanel) == nCommands = 0 \/ hasPanel

\* waitForSnapshotRefresh goes round its loop again: the time is not up and
\* the store holds no snapshot or the one it held before.
StillWaiting(elapsed, current, previousId) ==
  /\ elapsed < TimeoutMs
  /\ ~(current # 0 /\ current # previousId)

\* vscode.commands.executeCommand("workflowAgent.runWorkflow")
ExecuteRun(a) == [a EXCEPT !.pc = "ran", !.runId = snapshotId]

\* The request handler from the converted actions on: nCommands canvas
\* commands, shouldRun for run_workflow.  With commands to wait for, the
\* first round of waitForSnapshotRefresh finds the store as it was read a
\* moment ago and starts the first delay.
AgentHandler(nCommands, shouldRun, hasPanel, cancelled) ==
  /\ agent.pc = "idle"
  /\ LET a == [agent EXCEPT !.previousId = snapshotId,
                            !.posted = Posted(nCommands, hasPanel)]
     IN agent' =
          IF shouldRun /\ CommandsApplied(nCommands, hasPanel) /\ ~cancelled
          THEN IF nCommands > 0
               THEN [a EXCEPT !.pc = "waiting", !.waited = 0]
               ELSE ExecuteRun(a)
          ELSE [a EXCEPT !.pc = "done"]
  /\ UNCHANGED <<snapshotId, engineVars>>

\* A delay(60) of waitForSnapshotRefresh ends: the loop tests the time and
\* the store, and either delays again or returns to the handler, which
\* executes the run command.
AgentDelayEnds ==
  /\ agent.pc = "waiting"
  /\ LET elapsed == agent.waited + DelayMs
         a == [agent EXCEPT !.waited = elapsed]
     IN agent' = IF StillWaiting(elapsed, snapshotId, agent.previousId)
                 THEN a
                 ELSE ExecuteRun(a)
  /\ UNCHANGED <<snapshotId, engineVars>>

\* The webview posts workflow/update and the panel stores its payload.
CanvasUpdate ==
  /\ snapshotId < MaxSnapshots
  /\ snapshotId' = snapshotId + 1
  /\ UNCHANGED <<agent, engineVars>>

\* One chat request and the canvas.
AgentNext ==
  \/ \E nCommands \in 0..1 : \E shouldRun, hasPanel, cancelled \in BOOLEAN :
        AgentHandler(nCommands, shouldRun, hasPanel, cancelled)
  \/ AgentDelayEnds
  \/ CanvasUpdate

AgentSpec == Init /\ [][AgentNext]_vars

-----------------------------------------------------------------------------
\* Properties of the client.

\* Writes made on behalf of call c.
WritesOf(c) == {w \in writes : w.call = c}

\* The runs whose PendingRun has been created and is not settled.
PendingRuns == {c \in Calls : calls[c].op = "run" /\ calls[c].opst = "pending"}

\* C1: single flight.  At any time at most one run has a PendingRun that was
\* created and is not yet settled, whatever the number of concurrent
\* runWorkflow calls and the order of their awaits.
C1_SingleFlight == Cardinality(PendingRuns) <= 1

\* A run is pending while a second runWorkflow call has passed its ping and is
\* about to execute the busy check.
C1_Witness ==
  \E c, d \in Calls :
     /\ c # d
     /\ c \in PendingRuns /\ activeRun.cid = c
     /\ calls[d].op = "run" /\ calls[d].pc = "afterPing" /\ calls[d].err = ""

\* C2: a runWorkflow call made while another run is pending, and rejected with
\* the busy error, has written nothing to the worker between its start and
\* its rejection.
C2_BusyCallWritesNothing ==
  \A c \in Calls :
     calls[c].op = "run" /\ calls[c].startBusy /\ calls[c].result = "busy"
        => WritesOf(c) = {}

\* C3: every message written to the worker's stdin was written after READY
\* had been received from the process it is written to, replacement
\* processes included.
C3_WritesAfterReady == \A w \in writes : w.ready

\* A run was accepted and its RUN_WORKFLOW written on a process that was
\* spawned after an earlier process had exited or failed.
C3_Witness ==
  /\ failed /\ child # 0 /\ readyRecv
  /\ activeRun.cid # 0
  /\ calls[activeRun.cid].pc = "running"
  /\ \E w \in writes : w.call = activeRun.cid /\ w.kind = "RUN_WORKFLOW"

\* C4: every entry held in a registry (activeRun, pendingPings, pendingChats)
\* is unsettled, and over its lifetime at most one of an entry's resolve /
\* reject continuations has been invoked, at most once.
C4_RegistryEntriesUnsettled ==
  /\ \A c \in SeqToSet(pendingPings) : calls[c].probe = "pending"
  /\ activeRun.cid # 0 => calls[activeRun.cid].opst = "pending"
  /\ \A c \in pendingChats : calls[c].opst = "pending"
  /\ \A c \in Calls : /\ calls[c].pRes + calls[c].pRej <= 1
                      /\ calls[c].oRes + calls[c].oRej <= 1

\* The entries that are registered and unsettled.
PendingProbes == {c \in SeqToSet(pendingPings) : calls[c].probe = "pending"}
PendingChatOps == {c \in pendingChats : calls[c].opst = "pending"}
PendingRunOps == {c \in Calls : activeRun.cid = c /\ calls[c].opst = "pending"}

RegistriesEmpty == activeRun = NoRun /\ pendingPings = <<>> /\ pendingChats = {}

\* C5: when the worker process exits or emits a process-level error, the
\* pending run is rejected with the transport error of that event, every
\* pending probe and every pending chat is rejected, and right after the
\* handler the three registries are empty.
C5_ExitDrains ==
  [][(ProcExit \/ ProcError) =>
       /\ \A c \in PendingRunOps :
            /\ calls'[c].opst = "rejected"
            /\ calls'[c].operr \in {"exitedBeforeCompletion", "processFailed"}
       /\ \A c \in PendingProbes :
            calls'[c].probe = "rejected" /\ calls'[c].perr = "exited"
       /\ \A c \in PendingChatOps :
            calls'[c].opst = "rejected" /\ calls'[c].operr = "exited"
       /\ RegistriesEmpty']_vars

\* The process went away while a run and a probe or chat of another call
\* were pending: both were rejected and the registries are empty.
C5_Witness ==
  /\ RegistriesEmpty /\ child = 0
  /\ \E c, d \in Calls :
       /\ calls[c].op = "run" /\ calls[c].opst = "rejected"
       /\ calls[c].operr \in {"exitedBeforeCompletion", "processFailed"}
       /\ calls[c].pc = "finally"
       /\ \/ calls[d].probe = "rejected" /\ calls[d].perr = "exited"
          \/ calls[d].opst = "rejected" /\ calls[d].operr = "exited"

\* A call made after dispose() has been rejected, or is about to be by the
\* microtask that is already queued for it.
LateRejected(c) ==
  \/ calls[c].result = "disposed"
  \/ /\ calls[c].result = "pending"
     /\ calls[c].err = "disposed"
     /\ c \in SeqToSet(mq)

\* C6: after dispose() the client is inert.  Every runWorkflow, ping and
\* sendChatPrompt call made afterwards is rejected, no worker process is
\* spawned any more, and nothing is written to a worker stdin any more, a
\* CANCEL for a cancellation that fires later included.
C6_DisposedInert ==
  /\ [](\A c \in Calls : calls[c].late => LateRejected(c))
  /\ [][disposed => /\ disposed'
                    /\ child' = 0
                    /\ alive' <= alive
                    /\ writes' = writes]_vars

\* A call made after dispose() has been rejected.
C6_Witness ==
  /\ disposed
  /\ \E c \in Calls : calls[c].late /\ calls[c].pc = "done"
                       /\ calls[c].result = "disposed"

\* What one dispose() step does to the entries that are pending.
DisposeSettles ==
  /\ \A c \in PendingProbes :
       /\ calls'[c].probe = "rejected"
       /\ calls'[c].pRej = calls[c].pRej + 1 /\ calls'[c].pRes = calls[c].pRes
  /\ \A c \in PendingRunOps \cup PendingChatOps :
       /\ calls'[c].opst = "rejected"
       /\ calls'[c].oRej = calls[c].oRej + 1 /\ calls'[c].oRes = calls[c].oRes
  /\ RegistriesEmpty'

\* No continuation of an entry that dispose() rejected is invoked in this step.
DisposedEntriesStay ==
  \A c \in Calls :
     /\ calls[c].perr = "clientDisposed" =>
          calls'[c].pRes = calls[c].pRes /\ calls'[c].pRej = calls[c].pRej
     /\ calls[c].operr = "clientDisposed" =>
          calls'[c].oRes = calls[c].oRes /\ calls'[c].oRej = calls[c].oRej

\* C7: dispose() invokes reject exactly once on every run, probe and chat
\* that is pending when it is called and resolves none of them, it leaves the
\* three registries empty, and no entry it rejected is resolved or rejected
\* again afterwards.
C7_DisposeRejectsOnce ==
  [][(Dispose => DisposeSettles) /\ DisposedEntriesStay]_vars

\* dispose() was called while a run and a probe or chat of another call were
\* pending, and each was rejected once.
C7_Witness ==
  /\ disposed /\ RegistriesEmpty
  /\ \E c, d \in Calls :
       /\ calls[c].op = "run" /\ calls[c].operr = "clientDisposed"
       /\ calls[c].oRej = 1 /\ calls[c].oRes = 0
       /\ \/ calls[d].perr = "clientDisposed" /\ calls[d].pRej = 1
                                               /\ calls[d].pRes = 0
          \/ calls[d].op = "chat" /\ calls[d].operr = "clientDisposed"
                                  /\ calls[d].oRej = 1 /\ calls[d].oRes = 0

\* C8: when the handshake timer fires before READY was received, the callers
\* waiting on the handshake are rejected and the worker handle is torn down:
\* the client no longer holds the child nor its readiness promise.
C8_TimeoutTearsDown ==
  [][ReadyTimer /\ readyStatus = "pending" =>
       /\ readyWaiters' = <<>>
       /\ \A c \in SeqToSet(readyWaiters) : calls'[c].err = "timedOut"
       /\ child' = 0
       /\ readyPromise' = 0]_vars

\* No call becomes resolved in this step.
NoneResolves ==
  \A c \in Calls : calls'[c].result = "resolved" => calls[c].result = "resolved"

\* C9 as claimed: once a process exit, a process error or a handshake timeout
\* has happened, the client never spawns a worker again and no operation on
\* it succeeds any more.
C9_FailureTerminalForClient ==
  [][failed => alive' <= alive /\ NoneResolves]_vars

\* C9 as the client behaves: a process exit or process error is terminal for
\* the worker handle only.  The handler drops the child and its readiness
\* promise, and the next call on the client, unless it is disposed, spawns a
\* replacement worker.  After a handshake timeout the client keeps the
\* handle, and while it does no worker is spawned, nothing is written and no
\* operation succeeds.
C9_FailureTerminalForHandle ==
  [][/\ (ProcExit \/ ProcError) =>
          child' = 0 /\ readyPromise' = 0 /\ readyStatus' = "none"
     /\ (CallRun \/ CallChat \/ CallPing) /\ failed /\ child = 0 /\ ~disposed =>
          child' # 0 /\ alive' = alive + 1 /\ readyStatus' = "pending"
     /\ readyStatus = "timedOut" =>
          alive' <= alive /\ writes' = writes /\ NoneResolves]_vars

\* A probe was answered by a replacement worker: the client has seen a
\* failure, holds a worker whose READY it received, and a PONG of that worker
\* has just resolved a probe.
C9_Witness ==
  /\ failed /\ child # 0 /\ readyStatus = "resolved"
  /\ \E c \in Calls : calls[c].pc = "PG_settle" /\ calls[c].probe = "resolved"

\* Probes are resolved in the order they were issued, leaving no gap.
ResolvedInIssueOrder ==
  \A c, d \in Calls :
     /\ calls[d].seq # 0 /\ calls[d].seq < calls[c].seq
     /\ calls[c].probe = "resolved"
     => calls[d].probe = "resolved"

\* C10 as claimed: if no issued probe has timed out, the k-th PONG resolves
\* the k-th issued probe, so a resolved probe is never preceded by an
\* earlier-issued probe that is not resolved.
C10_KthPongKthProbe ==
  (\A c \in Calls : calls[c].perr # "pingTimeout") => ResolvedInIssueOrder

NoProbeRejected == \A c \in Calls : calls[c].probe # "rejected"

\* The issued probes that are not settled.
UnsettledProbes == {c \in Calls : calls[c].seq # 0 /\ calls[c].probe = "pending"}

\* C10 as the client behaves: if no issued probe has been rejected (by its
\* timeout, by process exit or by disposal), probes are resolved in issue
\* order, and each PONG received while a probe is unsettled resolves the
\* earliest issued unsettled probe and no other.
C10_FifoMatching ==
  /\ [](NoProbeRejected => ResolvedInIssueOrder)
  /\ [][OnPong /\ NoProbeRejected /\ UnsettledProbes # {} =>
          \E c \in UnsettledProbes :
             /\ \A d \in UnsettledProbes : calls[c].seq <= calls[d].seq
             /\ calls'[c].probe = "resolved"
             /\ \A d \in UnsettledProbes \ {c} : calls'[d].probe = "pending"]_vars

\* Two probes were outstanding when a PONG arrived: it has just resolved the
\* one issued first, and the one issued second is still queued.
C10_Witness ==
  /\ NoProbeRejected
  /\ \E c, d \in Calls :
       /\ calls[d].seq # 0 /\ calls[d].seq < calls[c].seq
       /\ calls[d].probe = "resolved" /\ calls[d].pc = "PG_settle"
       /\ calls[c].probe = "pending" /\ pendingPings = <<c>>

\* The queue without the entry of call c.
OtherPings(q, c) == SelectSeq(q, LAMBDA d : d # c)

\* C11: when the timer of one probe fires, that probe is rejected and no
\* other: every other probe keeps its state, its timer and its position
\* relative to the others in the queue.
C11_TimeoutRejectsOnlyThatProbe ==
  [][\A c \in Calls :
       PingTimer(c) =>
         /\ calls[c].probe = "pending" => calls'[c].probe = "rejected"
         /\ OtherPings(pendingPings', c) = OtherPings(pendingPings, c)
         /\ \A d \in Calls \ {c} :
              /\ calls'[d].probe = calls[d].probe
              /\ calls'[d].timer = calls[d].timer
              /\ calls'[d].pRes = calls[d].pRes
              /\ calls'[d].pRej = calls[d].pRej]_vars

\* Two probes are queued; the timer of one has fired and rejected it, the
\* other is still pending with its timer armed.
C11_Witness ==
  \E c, d \in Calls :
     /\ c # d
     /\ c \in SeqToSet(pendingPings) /\ d \in SeqToSet(pendingPings)
     /\ calls[c].probe = "rejected" /\ calls[c].perr = "pingTimeout"
     /\ ~calls[c].timer
     /\ calls[d].probe = "pending" /\ calls[d].timer

\* A CANCEL carrying the token of run c is written in this step.
CancelWritten(c) ==
  writes' # writes /\ \E w \in writes' \ writes : w.kind = "CANCEL" /\ w.call = c

\* The cancellation signal of run c fires while c is the pending run: the
\* run's cancellation flag is set and the run stays registered and pending.
CancelMarksRun(c) ==
  Cancel(c) /\ activeRun.cid = c =>
     /\ activeRun'.cid = c /\ activeRun'.cancelledByUser
     /\ calls'[c].opst = calls[c].opst
     /\ calls'[c].oRes = calls[c].oRes /\ calls'[c].oRej = calls[c].oRej

\* A pending run is settled only by a COMPLETE, ERROR or ASK_USER message, by
\* the exit or failure of the process, or by disposal.
RunSettledOnlyBy ==
  \A c \in Calls :
     calls[c].op = "run" /\ calls[c].opst = "pending" /\ calls'[c].opst # "pending"
     => \/ \E m \in CompleteMsgs : OnComplete(m)
        \/ \E t \in Tokens : OnComplete(PlainComplete(t)) \/ OnError(t) \/ OnAskUser(t)
        \/ ProcExit \/ ProcError \/ Dispose

\* C12 as claimed: a CANCEL carrying the token of run c is written exactly
\* when the cancellation signal fires while c is the pending run; the signal
\* sets the run's flag and leaves it pending, and the run is settled only by
\* a later COMPLETE, ERROR, ASK_USER, process exit or disposal.
C12_CancelWrittenIffFired ==
  [][/\ \A c \in Calls : CancelWritten(c) <=> (Cancel(c) /\ activeRun.cid = c)
     /\ \A c \in Calls : CancelMarksRun(c)
     /\ RunSettledOnlyBy]_vars

\* C12 as the client behaves: the CANCEL is written exactly when the signal
\* fires while c is the pending run and the worker's stdin can be written
\* to; the flag is set and the run left pending either way, and the run is
\* settled only by a later COMPLETE, ERROR, ASK_USER, process exit or
\* failure, or disposal.
C12_CancelWrittenIfWritable ==
  [][/\ \A c \in Calls :
          CancelWritten(c) <=> (Cancel(c) /\ activeRun.cid = c /\ CanSend)
     /\ \A c \in Calls : CancelMarksRun(c)
     /\ RunSettledOnlyBy]_vars

\* The signal has fired for the pending run: the CANCEL was written, the
\* flag is set and the run is still pending.
C12_Witness ==
  \E c \in Calls :
     /\ activeRun.cid = c /\ activeRun.cancelledByUser
     /\ calls[c].cancel = "fired" /\ calls[c].opst = "pending"
     /\ \E w \in writes : w.kind = "CANCEL" /\ w.call = c

\* C13: a COMPLETE whose token is the pending run's resolves that run, never
\* rejects it, with the files and warnings of the message and with cancelled
\* equal to the message's flag, false when the message has none, whether or
\* not a CANCEL was written for the run; the run is then no longer registered.
C13_CompleteResolves ==
  [][\A m \in CompleteMsgs :
       activeRun.cid # 0 /\ activeRun.cid = m.correlationId /\ OnComplete(m) =>
         LET c == activeRun.cid IN
         /\ calls'[c].opst = "resolved"
         /\ calls'[c].oRes = calls[c].oRes + 1 /\ calls'[c].oRej = calls[c].oRej
         /\ calls'[c].value.files = m.files
         /\ calls'[c].value.warnings = m.warnings
         /\ calls'[c].value.cancelled = (m.cancelled = "true")
         /\ activeRun' = NoRun]_vars

\* A run for which a CANCEL had been written was resolved by a COMPLETE that
\* carries cancelled = true.
C13_Witness ==
  \E c \in Calls :
     /\ calls[c].op = "run" /\ calls[c].opst = "resolved"
     /\ calls[c].value.cancelled /\ calls[c].value.files = "f2"
     /\ calls[c].cancel = "fired"
     /\ \E w \in writes : w.kind = "CANCEL" /\ w.call = c

\* The sum of the increments of a sequence of reports; a report without
\* increment adds nothing.
RECURSIVE SumIncrements(_)
SumIncrements(q) ==
  IF q = <<>> THEN 0
  ELSE (IF Head(q).increment = <<>> THEN 0 ELSE Head(q).increment[1])
       + SumIncrements(Tail(q))

\* C14: every increment reported to the progress sink of a run is >= 0, and
\* the sum of the increments reported so far never exceeds 100.
C14_IncrementsBounded ==
  /\ \A i \in 1..Len(activeRun.progress) :
       activeRun.progress[i].increment # <<>> =>
          activeRun.progress[i].increment[1] >= 0
  /\ SumIncrements(activeRun.progress) <= 100

\* The report that step made to the sink of the pending run.
LastReport == activeRun'.progress[Len(activeRun'.progress)]

\* A PROGRESS for the pending run: nothing but the run's lastPct and its sink
\* changes, and the report carries the step text.
ProgressFrame(m) ==
  /\ activeRun'.cid = activeRun.cid
  /\ activeRun'.cancelledByUser = activeRun.cancelledByUser
  /\ Len(activeRun'.progress) = Len(activeRun.progress) + 1
  /\ LastReport.message = (IF m.step = "absent" THEN "Working..." ELSE m.step)
  /\ UNCHANGED <<calls, pendingPings, pendingChats, mq, writes>>

LastPctOrZero == IF activeRun.lastPct = <<>> THEN 0 ELSE activeRun.lastPct[1]

\* C15 as claimed: for each PROGRESS of the pending run that carries a
\* percentage, the increment reported is max(0, pct - lastPct), with lastPct
\* the percentage of the previous such message or 0, lastPct becomes pct and
\* the step text is reported with it.
C15_IncrementIsDelta ==
  [][\A m \in ProgressMsgs :
       activeRun.cid # 0 /\ activeRun.cid = m.correlationId /\ m.pct # <<>>
                         /\ OnProgress(m) =>
         /\ LastReport.increment = <<Max(0, m.pct[1] - LastPctOrZero)>>
         /\ activeRun'.lastPct = m.pct
         /\ ProgressFrame(m)]_vars

\* C15 as the client behaves: the increment is max(0, pct - lastPct) when
\* pct lies in 0..100; for a percentage outside that range, and for a
\* message without one, the report carries no increment.  lastPct becomes
\* pct whenever the message carries a percentage, in range or not.
C15_IncrementIsDeltaInRange ==
  [][\A m \in ProgressMsgs :
       activeRun.cid # 0 /\ activeRun.cid = m.correlationId /\ OnProgress(m) =>
         /\ LastReport.increment =
               (IF m.pct # <<>> /\ m.pct[1] >= 0 /\ m.pct[1] <= 100
                THEN <<Max(0, m.pct[1] - LastPctOrZero)>> ELSE <<>>)
         /\ activeRun'.lastPct = (IF m.pct # <<>> THEN m.pct ELSE activeRun.lastPct)
         /\ ProgressFrame(m)]_vars

\* Two percentages were reported for the pending run, the second below the
\* first: the increments are the first percentage and 0.
C15_Witness ==
  /\ activeRun.cid # 0
  /\ Len(activeRun.progress) = 2
  /\ activeRun.progress[1].increment = <<100>>
  /\ activeRun.progress[2].increment = <<0>>
  /\ activeRun.progress[2].message = "s1"
  /\ activeRun.lastPct = <<50>>

\* Handling the line raised nothing, changed no registry, no handshake state
\* and no call, and did not end the dispatch of the chunk it arrived in.
LineIgnored ==
  /\ ~threw'
  /\ inChunk => inChunk'
  /\ UNCHANGED <<regVars, procVars, failed, disposed, calls, mq, writes>>

\* C16: a line that is not valid JSON, or valid JSON without a recognised
\* type (the JSON value null included), is handled without raising, changes
\* no registry and no handshake state, and the lines after it are still
\* dispatched.
C16_BadLineIgnored ==
  [][(OnLogged \/ OnNullLine) => LineIgnored]_vars

\* The pending run and the call that owns it are exactly as before.
RunUntouched ==
  /\ activeRun' = activeRun
  /\ calls'[activeRun.cid] = calls[activeRun.cid]

\* The pending run was rejected once with reason e and is no longer registered.
RunRejectedWith(e) ==
  LET c == activeRun.cid IN
  /\ calls'[c].opst = "rejected" /\ calls'[c].operr = e
  /\ calls'[c].oRej = calls[c].oRej + 1 /\ calls'[c].oRes = calls[c].oRes
  /\ activeRun' = NoRun

\* C17 as claimed: while a run is pending, an ERROR with the run's token, and
\* any ERROR that matches no pending operation (no token, or a token of
\* neither the run nor a pending chat), rejects the run with the worker's
\* message and clears the pending run.
C17_UnmatchedErrorRejectsRun ==
  [][\A t \in Tokens :
       activeRun.cid # 0 /\ (t = activeRun.cid \/ t = 0 \/ t \notin pendingChats)
                         /\ OnError(t) =>
         RunRejectedWith("workerError")]_vars

\* C17 as the client behaves: while a run is pending, an ERROR with the run's
\* token or with no token rejects the run with the worker's message and
\* clears it; an ERROR with any other token leaves the run pending and
\* registered.
C17_ErrorRejectsRun ==
  [][\A t \in Tokens :
       activeRun.cid # 0 /\ OnError(t) =>
         IF t = activeRun.cid \/ t = 0
         THEN RunRejectedWith("workerError") /\ UNCHANGED <<pendingPings, pendingChats>>
         ELSE RunUntouched]_vars

\* A pending run was rejected with the worker's error.
C17_Witness ==
  \E c \in Calls :
     /\ calls[c].op = "run" /\ calls[c].opst = "rejected"
     /\ calls[c].operr = "workerError" /\ calls[c].oRej = 1
     /\ activeRun = NoRun

\* C18: an ERROR without token that arrives while no run is pending settles
\* no operation and leaves every pending probe and pending chat unchanged.
C18_StandaloneError ==
  [][OnError(0) /\ activeRun.cid = 0 =>
       UNCHANGED <<calls, mq, activeRun, pendingPings, pendingChats, writes,
                   procVars, failed, disposed>>]_vars

\* An ERROR without token arrived while no run was pending and a chat and a
\* probe were.
C18_Witness ==
  /\ activeRun.cid = 0 /\ CanDeliver
  /\ ENABLED OnError(0)
  /\ pendingChats # {}
  /\ pendingPings # <<>>

\* C19 as claimed: an ASK_USER that arrives while a run is pending rejects
\* that run with the unsupported-interaction error and clears the pending
\* run; pending probes and pending chats are left unchanged.
C19_AskUserRejectsRun ==
  [][\A t \in Tokens :
       activeRun.cid # 0 /\ OnAskUser(t) =>
         RunRejectedWith("askUser") /\ UNCHANGED <<pendingPings, pendingChats>>]_vars

\* C19 as the client behaves: an ASK_USER whose token is the pending run's
\* rejects that run with the unsupported-interaction error and clears it;
\* an ASK_USER with another token, or with none, leaves the run pending;
\* pending probes and pending chats are unchanged in both cases.
C19_AskUserRejectsOwnRun ==
  [][\A t \in Tokens :
       activeRun.cid # 0 /\ OnAskUser(t) =>
         /\ IF t = activeRun.cid THEN RunRejectedWith("askUser") ELSE RunUntouched
         /\ UNCHANGED <<pendingPings, pendingChats>>]_vars

\* A pending run was rejected with the unsupported-interaction error while
\* a chat stayed pending.
C19_Witness ==
  \E c \in Calls :
     /\ calls[c].op = "run" /\ calls[c].opst = "rejected"
     /\ calls[c].operr = "askUser" /\ calls[c].oRej = 1
     /\ activeRun = NoRun
     /\ pendingChats # {}

\* sendChatPrompt reached its body without a failure of the handshake or of
\* the liveness probe, and the worker's stdin can be written.
ChatCanRegister(c) ==
  calls[c].op = "chat" /\ calls[c].pc = "afterPing" /\ calls[c].err = "" /\ CanSend

\* C20: sendChatPrompt is accepted while a run is pending and while other
\* chats are pending: its body registers the chat whatever the pending run
\* and the pending chats are.  Registering a chat, and settling one by a
\* CHAT_RESPONSE or by an ERROR carrying its token, never changes the
\* pending run (a step that changes the pending run is none of these);
\* settling the run by a COMPLETE, by an ERROR carrying the run's token or
\* by an ASK_USER never changes the set of pending chats (a step that
\* changes the pending chats is none of these).
C20_ChatIndependentOfRun ==
  [][/\ \A c \in Calls :
          ChatCanRegister(c) /\ ChatBody(c) =>
            /\ pendingChats' = pendingChats \cup {c}
            /\ calls'[c].opst = "pending"
            /\ Written("CHAT_REQUEST", c) \in writes'
     /\ activeRun' # activeRun =>
          /\ \A c \in Calls : ~ChatBody(c)
          /\ \A t \in pendingChats :
               ~OnChatResponse(t) /\ (t # activeRun.cid => ~OnError(t))
     /\ pendingChats' # pendingChats /\ activeRun.cid # 0 =>
          /\ \A t \in Tokens : ~OnComplete(PlainComplete(t)) /\ ~OnAskUser(t)
          /\ ~OnError(activeRun.cid)]_vars

\* A chat was registered after the run that is still pending, and both are
\* pending.
C20_Witness ==
  /\ activeRun.cid # 0
  /\ calls[activeRun.cid].opst = "pending"
  /\ \E c \in pendingChats :
        /\ c > activeRun.cid
        /\ calls[c].opst = "pending"
        /\ Written("CHAT_REQUEST", c) \in writes

\* Two chats are pending at once.
C20_TwoChatsPending ==
  Cardinality(pendingChats) = 2

\* Every call other than c is exactly as before.
OtherCallsUntouched(c) ==
  \A d \in Calls \ {c} : calls'[d] = calls[d]

\* C21: a CHAT_RESPONSE with token t resolves exactly the pending chat
\* registered under t, and an ERROR carrying the token of a pending chat
\* rejects exactly that chat; no message settles a chat registered under
\* another token, and a CHAT_RESPONSE with a token of no pending chat
\* changes nothing.
C21_ChatSettledByOwnToken ==
  [][CanDeliver /\ ~callerTurn' =>
      /\ \A t \in pendingChats :
           /\ OnChatResponse(t) =>
                /\ calls'[t].opst = "resolved"
                /\ calls'[t].oRes = calls[t].oRes + 1
                /\ calls'[t].oRej = calls[t].oRej
                /\ pendingChats' = pendingChats \ {t}
                /\ OtherCallsUntouched(t)
           /\ OnError(t) =>
                /\ calls'[t].opst = "rejected" /\ calls'[t].operr = "workerError"
                /\ calls'[t].oRej = calls[t].oRej + 1
                /\ calls'[t].oRes = calls[t].oRes
                /\ pendingChats' = pendingChats \ {t}
                /\ OtherCallsUntouched(t)
      /\ \A d \in pendingChats :
           \/ (d \in pendingChats' /\ calls'[d] = calls[d])
           \/ ~(\E t \in Tokens \ {d} :
                   \/ OnChatResponse(t) \/ OnError(t) \/ OnAskUser(t)
                   \/ OnComplete(PlainComplete(t)))
      /\ \/ UNCHANGED <<calls, mq, regVars, writes, procVars, failed, disposed>>
         \/ ~(\E t \in Tokens \ pendingChats : OnChatResponse(t))]_vars

\* One of two pending chats was resolved by the CHAT_RESPONSE carrying its
\* token and the other is still pending.
C21_Witness ==
  \E c, d \in Calls :
     /\ calls[c].op = "chat" /\ calls[c].opst = "resolved" /\ calls[c].oRes = 1
     /\ c \notin pendingChats
     /\ calls[d].op = "chat" /\ calls[d].opst = "pending" /\ d \in pendingChats

\* C25: at any time at most one worker process spawned by the client is
\* alive: the client spawns a process only when no process it spawned
\* earlier is still running.
C25_OneProcessAlive ==
  /\ [](alive <= 1)
  /\ [][alive' > alive => alive = 0 /\ alive' = 1 /\ child = 0 /\ child' # 0]_vars

\* A process is running that was spawned after an earlier one had exited or
\* failed.
C25_Witness ==
  /\ alive = 1 /\ child # 0 /\ failed
  /\ readyStatus = "pending"

\* C24: rejecting a second runWorkflow call as busy leaves the pending run
\* unchanged (same token, same last percentage, same cancellation flag,
\* still pending) and writes nothing for the run, and that run is still
\* resolved by its own later COMPLETE.
C24_BusyLeavesRunUntouched ==
  [][/\ \A c \in Calls :
          activeRun.cid # 0 /\ calls[c].err = "" /\ RunBody(c) =>
            /\ calls'[c].result = "busy"
            /\ activeRun' = activeRun
            /\ calls'[activeRun.cid] = calls[activeRun.cid]
            /\ \A w \in writes' \ writes : w.kind # "RUN_WORKFLOW"
     /\ \A t \in Tokens :
          /\ activeRun.cid # 0 /\ activeRun.cid = t
          /\ \E c \in Calls : calls[c].result = "busy"
          /\ OnComplete(PlainComplete(t))
          => calls'[t].opst = "resolved" /\ calls'[t].oRes = 1 /\ calls'[t].oRej = 0
             /\ activeRun' = NoRun]_vars

\* A second call was rejected as busy while the run had reported 50 percent
\* and had been cancelled; the run is still pending with that state.
C24_Witness ==
  /\ activeRun.cid # 0
  /\ activeRun.lastPct = <<50>> /\ activeRun.cancelledByUser
  /\ calls[activeRun.cid].opst = "pending"
  /\ \E c \in Calls : calls[c].op = "run" /\ calls[c].result = "busy"

\* The run was resolved by its COMPLETE after another call had been rejected
\* as busy.
C24_ResolvedAfterBusy ==
  \E c, d \in Calls :
     /\ calls[d].op = "run" /\ calls[d].result = "busy"
     /\ calls[c].op = "run" /\ calls[c].opst = "resolved"

\* The run of call d was settled by a message of the worker: a COMPLETE, an
\* ERROR or an ASK_USER.
SettledByWorker(d) ==
  \/ calls[d].opst = "resolved"
  \/ calls[d].opst = "rejected" /\ calls[d].operr \in {"workerError", "askUser"}

\* C26: after the pending run is settled by COMPLETE, ERROR or ASK_USER the
\* client is ready again: these messages clear the pending run, and the
\* next runWorkflow call that reaches its busy check on the running worker
\* is accepted: it registers a new PendingRun and writes RUN_WORKFLOW.
C26_ReadyAgainAfterSettle ==
  [][/\ \A t \in Tokens :
          activeRun.cid # 0 /\ activeRun' # activeRun
          /\ (OnComplete(PlainComplete(t)) \/ OnError(t) \/ OnAskUser(t))
          => /\ activeRun' = NoRun
             /\ calls'[activeRun.cid].opst \in {"resolved", "rejected"}
             /\ calls'[activeRun.cid].opst = "rejected" =>
                   calls'[activeRun.cid].operr \in {"workerError", "askUser"}
     /\ \A c \in Calls :
          /\ calls[c].op = "run" /\ calls[c].pc = "afterPing" /\ calls[c].err = ""
          /\ CanSend
          /\ \A d \in Calls \ {c} :
                calls[d].op = "run" /\ calls[d].opst # "none" => SettledByWorker(d)
          /\ RunBody(c)
          => /\ activeRun' = PendingRun(c)
             /\ calls'[c].opst = "pending" /\ calls'[c].result = "pending"
             /\ Written("RUN_WORKFLOW", c) \in writes' \ writes]_vars

\* A run is pending that was accepted after an earlier run had been
\* rejected by an ERROR of the worker.
C26_Witness ==
  \E c, d \in Calls :
     /\ c # d
     /\ calls[d].op = "run" /\ calls[d].opst = "rejected"
     /\ calls[d].operr = "workerError"
     /\ activeRun = PendingRun(c) /\ calls[c].opst = "pending"
     /\ \E w \in writes : w.kind = "RUN_WORKFLOW" /\ w.call = c

\* C27: every probe that has been enqueued is eventually settled: resolved
\* by a PONG, or rejected by its own timeout, by process exit or by
\* disposal, given that every armed timer eventually fires.
C27_ProbeEventuallySettled ==
  \A c \in Calls :
     (calls[c].probe = "pending") ~> (calls[c].probe \in {"resolved", "rejected"})

\* A probe whose PING could not be written was rejected by its own timeout.
C27_Witness ==
  \E c \in Calls :
     /\ calls[c].probe = "rejected" /\ calls[c].perr = "pingTimeout"
     /\ ~calls[c].timer
     /\ \A w \in writes : w.call # c

\* The slices with a line terminator put back after each.
RECURSIVE Rejoined(_)
Rejoined(q) ==
  IF q = <<>> THEN <<>> ELSE Chars(Head(q)) \o <<"n">> \o Rejoined(Tail(q))

\* The bytes received so far end with a complete character.
Utf8Complete(b) == b = <<>> \/ b[Len(b)] # "L"

\* What processStdout does with the whole text received so far when it
\* arrives as one chunk.
InOneChunk ==
  ProcessStdout([buffer |-> Fresh(ChunkToString(fed)), cut |-> <<>>,
                 dispatched |-> <<>>, threw |-> FALSE])

\* C22: for any way of splitting the stdout stream of the running process
\* into chunks, the lines cut off the buffer for the message handler (as
\* they were before trimming), with a line terminator put back after each,
\* followed by what is left in the buffer, are the text of the stream
\* received so far: framing drops and duplicates nothing.
C22_FramingKeepsStream ==
  child # 0 /\ Utf8Complete(fed) =>
     Rejoined(cut) \o Chars(stdoutBuffer) = ChunkToString(fed)

\* C23: after each stdout data event the frame buffer contains no line
\* terminator: it holds only the unterminated tail of the stream.
C23_BufferHoldsNoTerminator ==
  \A i \in 1..Len(stdoutBuffer) : stdoutBuffer[i].ch # "n"

\* C28: teardown discards the frame buffer: while a process is attached the
\* buffer holds only characters that process wrote, and no line handed to
\* the message handler contains a character of a process that had ended.
C28_NoBytesAcrossProcesses ==
  /\ child # 0 => \A i \in 1..Len(stdoutBuffer) : ~stdoutBuffer[i].old
  /\ \A k \in 1..Len(dispatched) :
        \A i \in 1..Len(dispatched[k]) : ~dispatched[k][i].old
  /\ \A k \in 1..Len(cut) : \A i \in 1..Len(cut[k]) : ~cut[k][i].old

\* A first process exited after it had written an unterminated line, and a
\* second process wrote a line that was handed to the message handler.
C28_Witness ==
  /\ failed /\ child # 0
  /\ Len(dispatched) = 1
  /\ Chars(dispatched[1]) = <<"a", "e">>
  /\ fed = <<"a", "L", "T", "n">>

\* The first process exited while the buffer held an unterminated line: the
\* buffer is empty afterwards.
C28_TailDiscarded ==
  /\ failed /\ child = 0
  /\ fed # <<>> /\ cut = <<>>
  /\ stdoutBuffer = <<>>

\* C30: the lines handed to the message handler depend only on the stream
\* of the process, not on how it is split into chunks: whatever the chunks
\* were, the lines dispatched so far are those dispatched when the same
\* text arrives as one chunk.
C30_ChunkingIrrelevant ==
  child # 0 /\ Utf8Complete(fed) => dispatched = InOneChunk.dispatched

\* C29: when a chat response carries canvas commands together with
\* run_workflow, the run command is executed only after the mutations have
\* settled: the store then holds a snapshot whose generatedAt differs from
\* the one recorded before the commands were posted to the canvas.
C29_RunAfterRefresh ==
  agent.pc = "ran" /\ agent.posted =>
     agent.runId # 0 /\ agent.runId # agent.previousId

\* The run command was executed after the canvas had published the changed
\* document.
C29_RanAfterUpdate ==
  /\ agent.pc = "ran" /\ agent.posted
  /\ agent.runId # 0 /\ agent.runId # agent.previousId
  /\ agent.waited < TimeoutMs

\* C31: when writing RUN_WORKFLOW fails because the worker's stdin is
\* unavailable, runWorkflow rejects and no PendingRun of that call remains
\* registered (so that no later call can be rejected as busy because of it).
C31_FailedSendLeavesNoRun ==
  \A c \in Calls :
     calls[c].op = "run" /\ calls[c].result = "unavailable" =>
        activeRun.cid # c


\* C32: when writing PING fails because the worker's stdin is unavailable,
\* the probe entry the call enqueued is removed from the queue and its
\* timer is cleared: no entry whose PING was never written stays queued.
C32_FailedPingLeavesNoProbe ==
  \A c \in Calls :
     calls[c].seq # 0 /\ (\A w \in writes : w.kind # "PING" \/ w.call # c) =>
        /\ \A i \in 1..Len(pendingPings) : pendingPings[i] # c
        /\ ~calls[c].timer


\* C33: the finally callback of a run, which clears this.activeRun after
\* the run's promise has settled, never clears the PendingRun of another,
\* later run.
C33_FinallyClearsOwnRun ==
  [][\A c \in Calls :
       activeRun.cid # 0 /\ activeRun.cid # c /\ calls[c].pc = "finally"
          /\ RunFinally(c) => activeRun' = activeRun]_vars


\* C34: a PROGRESS or COMPLETE message whose token is not the pending run's
\* (a late message of an earlier run, or one without a token) does not
\* settle the pending run, does not change its last percentage and reports
\* nothing to its sink: it changes nothing.
C34_ForeignMessagesLeaveRun ==
  [][activeRun.cid # 0 =>
       /\ \A m \in BusyProgressMsgs :
            m.correlationId # activeRun.cid /\ OnProgress(m) =>
               UNCHANGED <<activeRun, calls, mq>>
       /\ \A t \in Tokens :
            t # activeRun.cid /\ OnComplete(PlainComplete(t)) =>
               UNCHANGED <<activeRun, calls, mq>>]_vars

\* The first run has resolved and a second run is pending with a progress
\* report of its own: the worker may still send messages of the first run.
C34_Witness ==
  /\ activeRun.cid = 2 /\ calls[2].opst = "pending"
  /\ calls[1].op = "run" /\ calls[1].opst = "resolved"
  /\ activeRun.lastPct = <<50>>
  /\ ~callerTurn /\ mq = <<>>


\* C35: a PONG handled while an enqueued probe is unsettled resolves exactly
\* one unsettled probe: a probe that has timed out does not consume it.
C35_PongResolvesUnsettled ==
  [][UnsettledProbes # {} /\ OnPong =>
       \E c \in UnsettledProbes :
          /\ calls'[c].probe = "resolved"
          /\ \A d \in UnsettledProbes \ {c} : calls'[d].probe = "pending"]_vars


\* The PING of probe c has been written.
PingWritten(c) == \E w \in writes : w.kind = "PING" /\ w.call = c

C37_DisposeEndsHandshake ==
  disposed => readyWaiters = <<>> /\ ~timerArmed

====
